---- MODULE Spec2Model ----
(***************************************************************************)
(* Model of tcmalloc's hugepage filler (tcmalloc/huge_page_filler.h):      *)
(* PageTracker (one huge page of kPagesPerHugePage small pages) and        *)
(* HugePageFiller (the tracker lists and their accounting).                *)
(*                                                                         *)
(* RangeTracker, Bitmap and HintedTrackerLists live in headers that are    *)
(* only included by huge_page_filler.h; their operations are modelled from *)
(* the specification text (RangeTracker / Bitmap / hinted tracker lists).  *)
(*                                                                         *)
(* The time-series statistics (fillerstats_tracker_, subrelease_stats_)    *)
(* are not part of the state here: UpdateFillerStatsTracker only reads the *)
(* filler counters, and ReleasePages is driven with all skip-subrelease    *)
(* intervals zero, where GetDesiredSubreleasePages is not called.          *)
(***************************************************************************)
EXTENDS Integers, Naturals, Sequences, FiniteSets, TLC

\* ------------------------------------------------------------------------
\* Bounds
\* ------------------------------------------------------------------------
\* kPagesPerHugePage, scaled down (the program uses 256 or 512).
P == 3
\* Number of PageTracker objects the upstream allocator can have alive.
NumTrackers == 2
\* chunks_per_alloc_, the constructor parameter (0 < chunks_per_alloc <= 16).
ChunksPerAlloc == 2
\* Cap on unmapping_unaccounted_ (it only grows until ReleasePages drains it).
MaxUnaccounted == 2
\* Largest desired value handed to ReleasePages.
MaxDesired == 2
\* Largest number of unback calls that fail during one ReleasePages call.
MaxFailures == 1
\* kEpochs, the number of epochs of the statistics trackers, scaled down (the
\* program uses 16).
kEpochs == 3
\* epoch_length_ in clock ticks (the program: window_ / kEpochs).
EpochLength == 2
\* Largest number of pages of one skipped subrelease decision.
MaxSkippedPages == 2
\* Largest demand peak reported to the correctness tracker.
MaxPeak == 2
\* Cap on total_skipped_.count (it only grows).
MaxDecisions == 2
\* kNumHugePages, the huge pages of a HugeRegion, scaled down (the program
\* uses 512).
kNumHugePages == 3
\* Number of HugeRegion objects the upstream allocator can have alive.
NumRegions == 2
\* Cap on total_unbacked_ of a region (it only grows).
MaxTotalUnbacked == 2

Pages == 0 .. (P - 1)
Trackers == 1 .. NumTrackers
NoTracker == 0
kSparse == "kSparse"
kDense == "kDense"
Density == {kSparse, kDense}
kUnifiedAllocs == "kUnifiedAllocs"
kSeparateAllocs == "kSeparateAllocs"

\* kCandidatesForReleasingMemory = kPagesPerHugePage.raw_num()
kCandidatesForReleasingMemory == P

Min(a, b) == IF a <= b THEN a ELSE b
Max(a, b) == IF a >= b THEN a ELSE b

RECURSIVE SumOver(_, _)
\* Sum of f[x] over the finite set S.
SumOver(S, f) ==
  IF S = {} THEN 0
  ELSE LET x == CHOOSE y \in S : TRUE IN f[x] + SumOver(S \ {x}, f)

\* ------------------------------------------------------------------------
\* Bitmap<N> / RangeTracker<N> (modelled from the specification)
\* ------------------------------------------------------------------------
Range(i, n) == i .. (i + n - 1)

\* Bitmap::CountBits(index, n)
CountBits(bits, i, n) == Cardinality(bits \cap Range(i, n))
\* Bitmap::SetRange / ClearRange
SetRange(bits, i, n) == bits \cup Range(i, n)
ClearRange(bits, i, n) == bits \ Range(i, n)

\* Bitmap::NextFreeRange(start, &index, &length): the first clear bit at or
\* after start and the length of the run of clear bits beginning there.
NoRange == [found |-> FALSE, index |-> 0, len |-> 0]
NextFreeRange(bits, start) ==
  LET zeros == {i \in Pages : i >= start /\ i \notin bits} IN
  IF zeros = {} THEN NoRange
  ELSE LET i == CHOOSE z \in zeros : \A y \in zeros : z <= y
           stops == {j \in Pages : j > i /\ j \in bits}
           e == IF stops = {} THEN P
                ELSE CHOOSE s \in stops : \A y \in stops : s <= y
       IN [found |-> TRUE, index |-> i, len |-> e - i]

\* RangeTracker::longest_free()
LongestFree(bits) ==
  LET lens == {n \in 0 .. P : \E i \in Pages : i + n <= P /\ Range(i, n) \cap bits = {}}
  IN CHOOSE n \in lens : \A m \in lens : m <= n

\* RangeTracker::FindAndMark(n): leftmost free run of at least n pages.
FindIndex(bits, n) ==
  LET fits == {i \in Pages : i + n <= P /\ Range(i, n) \cap bits = {}}
  IN CHOOSE i \in fits : \A j \in fits : i <= j

FindAndMark(free, n) ==
  LET i == FindIndex(free.bits, n)
  IN [free |-> [bits |-> SetRange(free.bits, i, n), nallocs |-> free.nallocs + 1],
      index |-> i]

\* RangeTracker::Unmark(index, n)
Unmark(free, i, n) ==
  [bits |-> ClearRange(free.bits, i, n), nallocs |-> free.nallocs - 1]

\* ------------------------------------------------------------------------
\* PageTracker
\* ------------------------------------------------------------------------
\* PageTracker::PageTracker(HugePage p, bool was_donated).  location_,
\* was_donated_, abandoned_ and abandoned_count_ are left out: no operation
\* of the tracker or the filler branches on them.
NewPageTracker ==
  [released_count_   |-> 0,
   donated_          |-> FALSE,
   was_released_     |-> FALSE,
   unbroken_         |-> TRUE,
   free_             |-> [bits |-> {}, nallocs |-> 0],
   released_by_page_ |-> {},
   has_dense_spans_  |-> FALSE]

released(pt) == pt.released_count_ > 0
longest_free_range(pt) == LongestFree(pt.free_.bits)
nallocs(pt) == pt.free_.nallocs
used_pages(pt) == Cardinality(pt.free_.bits)
released_pages(pt) == pt.released_count_
free_pages(pt) == P - used_pages(pt)
empty(pt) == used_pages(pt) = 0

\* Faulty variant of PageTrackerGetAt: the released bits of the allocated
\* range are left set.
PageTrackerGetAtKeepReleased(pt, n, index) ==
  [pt |-> [pt EXCEPT !.free_ = [bits |-> SetRange(pt.free_.bits, index, n),
                                nallocs |-> pt.free_.nallocs + 1]],
   page |-> index,
   previously_unbacked |-> 0]

\* PageTracker::Get(n), given the index FindAndMark found.
PageTrackerGetAt(pt, n, index) ==
  [pt |-> [pt EXCEPT !.free_ = [bits |-> SetRange(pt.free_.bits, index, n),
                                nallocs |-> pt.free_.nallocs + 1],
                     !.released_by_page_ =
                        IF pt.released_count_ > 0 THEN ClearRange(@, index, n) ELSE @,
                     !.released_count_ =
                        IF pt.released_count_ > 0
                        THEN @ - CountBits(pt.released_by_page_, index, n) ELSE @],
   page |-> index,
   previously_unbacked |-> IF pt.released_count_ > 0
                           THEN CountBits(pt.released_by_page_, index, n) ELSE 0]

\* PageTracker::Get(n)
PageTrackerGet(pt, n) == PageTrackerGetAt(pt, n, FindAndMark(pt.free_, n).index)

\* Faulty variant of PageTrackerPut: the pages put back are flagged released.
PageTrackerPutReleased(pt, p, n) ==
  [pt EXCEPT !.free_ = Unmark(pt.free_, p, n),
             !.released_by_page_ = SetRange(@, p, n),
             !.released_count_ = Cardinality(SetRange(pt.released_by_page_, p, n))]

\* PageTracker::Put(p, n)
PageTrackerPut(pt, p, n) ==
  [pt EXCEPT !.free_ = Unmark(pt.free_, p, n)]

\* PageTracker::ReleasePages(p, n, unback); success is the value unback gave.
PageTrackerReleasePages(pt, success) ==
  IF success THEN [pt EXCEPT !.unbroken_ = FALSE] ELSE pt

RECURSIVE ReleaseFreeLoop(_, _, _, _)
\* Faulty variant of ReleaseFreeUnback: the run is marked released and
\* counted whatever unback returned.
ReleaseFreeUnbackIgnoreFailure(pt, free_index, end_, success, count, bad) ==
  ReleaseFreeLoop(
    [PageTrackerReleasePages(pt, success) EXCEPT
       !.released_by_page_ = SetRange(@, free_index, end_ - free_index)],
    end_, count + (end_ - free_index), bad)

\* Faulty variant of ReleaseFreeUnback: a run whose unback fails is counted
\* as released, though not marked.
ReleaseFreeUnbackCountsFailure(pt, free_index, end_, success, count, bad) ==
  ReleaseFreeLoop(
    IF success
    THEN [PageTrackerReleasePages(pt, TRUE) EXCEPT
            !.released_by_page_ = SetRange(@, free_index, end_ - free_index)]
    ELSE PageTrackerReleasePages(pt, FALSE),
    end_, count + (end_ - free_index), bad)

\* ReleaseFree: the unback call on [free_index, end_) and what follows it.
ReleaseFreeUnback(pt, free_index, end_, success, count, bad) ==
  ReleaseFreeLoop(
    IF success
    THEN [PageTrackerReleasePages(pt, TRUE) EXCEPT
            !.released_by_page_ = SetRange(@, free_index, end_ - free_index)]
    ELSE PageTrackerReleasePages(pt, FALSE),
    end_,
    IF success THEN count + (end_ - free_index) ELSE count,
    bad)

\* ReleaseFree: the body of the while loop for the backed range
\* [index, index + n), f being free_.NextFreeRange(index).
ReleaseFreeBacked(pt, index, n, f, count, bad) ==
  IF f.found /\ f.index < index + n
  THEN ReleaseFreeUnback(pt, f.index, Min(f.index + f.len, index + n),
                         f.index \notin bad, count, bad)
  ELSE ReleaseFreeLoop(pt, index + n, count, bad)

\* ReleaseFree: the while condition, r being
\* released_by_page_.NextFreeRange(index).
ReleaseFreeNext(pt, r, count, bad) ==
  IF ~r.found THEN [pt |-> pt, count |-> count]
  ELSE ReleaseFreeBacked(pt, r.index, r.len, NextFreeRange(pt.free_.bits, r.index),
                         count, bad)

\* The while loop of PageTracker::ReleaseFree from index on.  bad is the set
\* of page offsets at which an unback call on this tracker fails.
ReleaseFreeLoop(pt, index, count, bad) ==
  ReleaseFreeNext(pt, NextFreeRange(pt.released_by_page_, index), count, bad)

\* The unback calls of the while loop of PageTracker::ReleaseFree from index
\* on, in the order made: <<free_index, length, released_by_page_ at the
\* time of the call>>.
RECURSIVE ReleaseFreeCalls(_, _, _)
ReleaseFreeCallsBacked(pt, index, n, f, bad) ==
  IF f.found /\ f.index < index + n
  THEN <<<<f.index, Min(f.index + f.len, index + n) - f.index, pt.released_by_page_>>>>
         \o ReleaseFreeCalls(
              IF f.index \notin bad
              THEN [pt EXCEPT !.released_by_page_ =
                                SetRange(@, f.index, Min(f.index + f.len, index + n) - f.index)]
              ELSE pt,
              Min(f.index + f.len, index + n), bad)
  ELSE ReleaseFreeCalls(pt, index + n, bad)

ReleaseFreeCallsNext(pt, r, bad) ==
  IF ~r.found THEN <<>>
  ELSE ReleaseFreeCallsBacked(pt, r.index, r.len, NextFreeRange(pt.free_.bits, r.index), bad)

ReleaseFreeCalls(pt, index, bad) ==
  ReleaseFreeCallsNext(pt, NextFreeRange(pt.released_by_page_, index), bad)

\* Faulty variant of ReleaseFreeCount: released_count_ is left alone.
ReleaseFreeCountDropped(r) == [pt |-> r.pt, count |-> r.count]

\* ReleaseFree: released_count_ += count; return count.
ReleaseFreeCount(r) ==
  [pt |-> [r.pt EXCEPT !.released_count_ = @ + r.count], count |-> r.count]

\* PageTracker::ReleaseFree(unback)
ReleaseFree(pt, bad) == ReleaseFreeCount(ReleaseFreeLoop(pt, 0, 0, bad))

\* ------------------------------------------------------------------------
\* HintedTrackerLists<TrackerType, N> (modelled from the specification):
\* one list per bin; the N lists are modelled as the set of <<bin, tracker>>
\* pairs, <<i, pt>> standing for "pt is on list i".
\* ------------------------------------------------------------------------
EmptyLists == {}
\* HintedTrackerLists::Add(pt, i)
ListAdd(lists, pt, i) == lists \cup {<<i, pt>>}
\* HintedTrackerLists::Remove(pt, i)
ListRemove(lists, pt, i) == lists \ {<<i, pt>>}
\* HintedTrackerLists::size()
ListSize(lists) == Cardinality(lists)
\* All trackers on some bin of lists.
ListMembers(lists) == {e[2] : e \in lists}
\* The trackers on bin i.
Bin(lists, i) == {e[2] : e \in {x \in lists : x[1] = i}}
\* The least non-empty bin >= n (lists has one).
LeastBin(lists, n) ==
  LET bins == {e[1] : e \in {x \in lists : x[1] >= n}}
  IN CHOOSE b \in bins : \A c \in bins : b <= c

\* Rankings of the trackers: the order in which trackers of one bin are met
\* (the position of a tracker within its bin is not modelled).
Ranks == {r \in [Trackers -> 1 .. NumTrackers] : \A a, b \in Trackers : a # b => r[a] # r[b]}
First(S, tie) == CHOOSE x \in S : \A y \in S : tie[x] <= tie[y]

\* HintedTrackerLists::GetLeast(n): a tracker of the least non-empty bin
\* >= n, removed from it; NoTracker when there is none.
GetLeast(lists, n, tie) ==
  IF {x \in lists : x[1] >= n} = {} THEN [pt |-> NoTracker, lists |-> lists]
  ELSE LET i == LeastBin(lists, n)
           pt == First(Bin(lists, i), tie)
       IN [pt |-> pt, lists |-> ListRemove(lists, pt, i)]

\* ------------------------------------------------------------------------
\* SubreleaseStats
\* ------------------------------------------------------------------------
\* SubreleaseStats as constructed.
NewSubreleaseStats ==
  [total_pages_subreleased |-> 0,
   total_partial_alloc_pages_subreleased |-> 0,
   num_pages_subreleased |-> 0,
   num_partial_alloc_pages_subreleased |-> 0,
   total_hugepages_broken |-> 0,
   num_hugepages_broken |-> 0,
   is_limit_hit |-> FALSE,
   total_pages_subreleased_due_to_limit |-> 0,
   total_hugepages_broken_due_to_limit |-> 0]

\* SubreleaseStats::reset()
reset(s) ==
  [s EXCEPT !.total_pages_subreleased = @ + s.num_pages_subreleased,
            !.total_partial_alloc_pages_subreleased =
              @ + s.num_partial_alloc_pages_subreleased,
            !.total_hugepages_broken = @ + s.num_hugepages_broken,
            !.num_pages_subreleased = 0,
            !.num_partial_alloc_pages_subreleased = 0,
            !.num_hugepages_broken = 0]

\* SubreleaseStats::set_limit_hit(value)
set_limit_hit(s, value) == [s EXCEPT !.is_limit_hit = value]

\* SubreleaseStats::limit_hit()
limit_hit(s) == s.is_limit_hit

\* ------------------------------------------------------------------------
\* SkipSubreleaseIntervals: durations are whole numbers of clock ticks, an
\* epoch of the statistics tracker being EpochLength ticks long.
\* ------------------------------------------------------------------------
\* SkipSubreleaseIntervals::IsPeakIntervalSet()
IsPeakIntervalSet(intervals) == intervals.peak_interval # 0

\* SkipSubreleaseIntervals::SkipSubreleaseEnabled()
SkipSubreleaseEnabled(intervals) ==
  intervals.peak_interval # 0 \/ intervals.short_interval # 0
    \/ intervals.long_interval # 0

\* SkipSubreleaseIntervals with every interval zero.
NoIntervals == [peak_interval |-> 0, short_interval |-> 0, long_interval |-> 0]

\* ------------------------------------------------------------------------
\* FillerStatsTracker<kEpochs>: the time series of demand.  The series
\* (TimeSeriesTracker, modelled from the specification) is the sequence of the
\* kEpochs latest epoch entries, the current epoch first; of an entry the
\* model keeps whether it is empty and num_pages of the samples at minimum
\* and at maximum demand.  elapsed is the number of epochs the clock has
\* advanced since the series was last reported to.
\* ------------------------------------------------------------------------
\* FillerStatsEntry::Nil()
NilEntry == [empty |-> TRUE, min_demand |-> 0, max_demand |-> 0]

\* FillerStatsEntry::Report(e), num_pages being e.num_pages.
EntryReport(e, num_pages) ==
  IF e.empty
  THEN [empty |-> FALSE, min_demand |-> num_pages, max_demand |-> num_pages]
  ELSE [empty |-> FALSE,
        min_demand |-> Min(e.min_demand, num_pages),
        max_demand |-> Max(e.max_demand, num_pages)]

\* FillerStatsTracker as constructed.
NewFillerStatsTracker == [entries |-> [i \in 1 .. kEpochs |-> NilEntry], elapsed |-> 0]

\* TimeSeriesTracker: the entries after the clock has advanced by elapsed
\* epochs (the series rotates, the entries of the new epochs are Nil).
Rotate(entries, elapsed) ==
  [i \in 1 .. kEpochs |-> IF i <= elapsed THEN NilEntry ELSE entries[i - elapsed]]

\* TimeSeriesTracker::Report(val) on the series h: the series is brought up
\* to the clock and val is folded into the entry of the current epoch.
TimeSeriesReport(h, num_pages) ==
  [entries |-> [Rotate(h.entries, h.elapsed) EXCEPT ![1] = EntryReport(@, num_pages)],
   elapsed |-> 0]

\* A FillerStatsTracker as constructed, with a record of the demand reported
\* to it: samples[age] are the values reported in the epoch that began age
\* epochs ago (the kEpochs latest epochs), and all_time_max is the largest
\* value ever reported.
NewDemand ==
  [h |-> NewFillerStatsTracker,
   samples |-> [age \in 0 .. (kEpochs - 1) |-> {}],
   all_time_max |-> 0]

\* TimeSeriesTracker::IterBackwards(f, num_epochs): the entries f is called
\* on, num_epochs = -1 standing for all of them.
IterBackwards(h, num_epochs) ==
  {h.entries[i] : i \in 1 .. (IF num_epochs = -1 THEN kEpochs ELSE num_epochs)}

\* The largest of the numbers of S, 0 if there is none (a Length starts at
\* 0 and is raised by each larger value met).
MaxOf(S) == IF S = {} THEN 0 ELSE CHOOSE x \in S : \A y \in S : y <= x

\* FillerStatsTracker::GetRecentPeak(peak_interval)
GetRecentPeak(h, peak_interval) ==
  MaxOf({e.max_demand :
           e \in {x \in IterBackwards(h, Min(peak_interval \div EpochLength, kEpochs)) :
                    ~x.empty}})

\* Faulty variant of GetRecentDemand: the sum is not capped by the largest
\* demand of the series.
GetRecentDemandUncapped(h, short_interval, long_interval) ==
  MaxOf({e.max_demand - e.min_demand :
           e \in {x \in IterBackwards(h, Min(short_interval \div EpochLength, kEpochs)) :
                    ~x.empty}})
    + MaxOf({e.min_demand :
               e \in {x \in IterBackwards(h, Min(long_interval \div EpochLength, kEpochs)) :
                        ~x.empty}})

\* FillerStatsTracker::GetRecentDemand(short_interval, long_interval)
GetRecentDemand(h, short_interval, long_interval) ==
  Min(MaxOf({e.max_demand : e \in {x \in IterBackwards(h, -1) : ~x.empty}}),
      MaxOf({e.max_demand - e.min_demand :
               e \in {x \in IterBackwards(h, Min(short_interval \div EpochLength, kEpochs)) :
                        ~x.empty}})
        + MaxOf({e.min_demand :
                   e \in {x \in IterBackwards(h, Min(long_interval \div EpochLength, kEpochs)) :
                            ~x.empty}}))

\* ------------------------------------------------------------------------
\* SkippedSubreleaseCorrectnessTracker
\* A tracker c is [entries |-> the kEpochs latest SkippedSubreleaseEntry of
\* tracker_, the current epoch first, elapsed |-> the number of epochs the
\* clock has advanced since tracker_ was last reported to,
\* last_confirmed_peak_, total_skipped_, correctly_skipped_, pending_skipped_].
\* ------------------------------------------------------------------------
\* SkippedSubreleaseDecision::Zero()
Zero == [pages |-> 0, count |-> 0]

\* SkippedSubreleaseDecision(pages): one decision.
SkippedSubreleaseDecision(pages) == [pages |-> pages, count |-> 1]

\* SkippedSubreleaseDecision::operator+=
DecisionAdd(lhs, rhs) == [pages |-> lhs.pages + rhs.pages, count |-> lhs.count + rhs.count]

\* SkippedSubreleaseEntry::Nil()
SkippedSubreleaseEntryNil ==
  [decisions |-> Zero, max_num_pages_at_decision |-> 0,
   correctness_interval_epochs |-> 0, max_confirmed_peak |-> 0]

\* A SkippedSubreleaseUpdate that reports nothing.
NoUpdate ==
  [decision |-> Zero, num_pages_at_decision |-> 0, correctness_interval_epochs |-> 0,
   confirmed_peak |-> 0]

\* SkippedSubreleaseEntry::Report(e)
SkippedSubreleaseEntryReport(entry, e) ==
  [decisions |-> DecisionAdd(entry.decisions, e.decision),
   correctness_interval_epochs |->
     Max(entry.correctness_interval_epochs, e.correctness_interval_epochs),
   max_num_pages_at_decision |->
     Max(entry.max_num_pages_at_decision, e.num_pages_at_decision),
   max_confirmed_peak |-> Max(entry.max_confirmed_peak, e.confirmed_peak)]

\* SkippedSubreleaseCorrectnessTracker as constructed.
NewSkippedSubreleaseCorrectnessTracker ==
  [entries |-> [i \in 1 .. kEpochs |-> SkippedSubreleaseEntryNil],
   elapsed |-> 0,
   last_confirmed_peak_ |-> 0,
   total_skipped_ |-> Zero,
   correctly_skipped_ |-> Zero,
   pending_skipped_ |-> Zero]

\* tracker_.Report(update): the series is brought up to the clock (it
\* rotates by the epochs elapsed, the entries of the new epochs are Nil) and
\* update is folded into the entry of the current epoch.
SkippedTrackerReport(c, update) ==
  [c EXCEPT
     !.entries =
       [i \in 1 .. kEpochs |->
          IF i = 1
          THEN SkippedSubreleaseEntryReport(
                 IF c.elapsed = 0 THEN c.entries[1] ELSE SkippedSubreleaseEntryNil, update)
          ELSE IF i <= c.elapsed THEN SkippedSubreleaseEntryNil
          ELSE c.entries[i - c.elapsed]],
     !.elapsed = 0]

\* SkippedSubreleaseCorrectnessTracker::ReportSkippedSubreleasePages(
\* skipped_pages, peak_pages, expected_time_until_next_peak)
CorrectnessReportSkippedSubreleasePages(c, skipped_pages, peak_pages, expected_time) ==
  [SkippedTrackerReport(
     c, [NoUpdate EXCEPT
           !.decision = SkippedSubreleaseDecision(skipped_pages),
           !.num_pages_at_decision = peak_pages,
           !.correctness_interval_epochs = expected_time \div EpochLength])
   EXCEPT !.total_skipped_ = DecisionAdd(@, SkippedSubreleaseDecision(skipped_pages)),
          !.pending_skipped_ = DecisionAdd(@, SkippedSubreleaseDecision(skipped_pages))]

\* Faulty variant of ReportUpdatedPeakEntry: a decision stays pending
\* however old it is.
ReportUpdatedPeakEntryNoInterval(c, offset, e, current_peak, largest_peak_already_confirmed) ==
  IF e.decisions.count > 0
       /\ e.max_num_pages_at_decision > largest_peak_already_confirmed
  THEN IF e.max_num_pages_at_decision <= current_peak
       THEN [c EXCEPT !.correctly_skipped_ = DecisionAdd(@, e.decisions)]
       ELSE [c EXCEPT !.pending_skipped_ = DecisionAdd(@, e.decisions)]
  ELSE c

\* ReportUpdatedPeak: what the function handed to IterBackwards does to the
\* counters for the entry e at an offset > 0.
ReportUpdatedPeakEntry(c, offset, e, current_peak, largest_peak_already_confirmed) ==
  IF e.decisions.count > 0
       /\ e.max_num_pages_at_decision > largest_peak_already_confirmed
       /\ offset <= e.correctness_interval_epochs
  THEN IF e.max_num_pages_at_decision <= current_peak
       THEN [c EXCEPT !.correctly_skipped_ = DecisionAdd(@, e.decisions)]
       ELSE [c EXCEPT !.pending_skipped_ = DecisionAdd(@, e.decisions)]
  ELSE c

\* Faulty variant of ReportUpdatedPeakIter: the peaks confirmed in the
\* epochs passed are not remembered.
RECURSIVE ReportUpdatedPeakIterForgetful(_, _, _, _)
ReportUpdatedPeakIterForgetful(c, offset, current_peak, largest_peak_already_confirmed) ==
  IF offset >= kEpochs THEN c
  ELSE ReportUpdatedPeakIterForgetful(
         ReportUpdatedPeakEntry(c, offset, c.entries[offset + 1], current_peak,
                                largest_peak_already_confirmed),
         offset + 1, current_peak, largest_peak_already_confirmed)

\* ReportUpdatedPeak: tracker_.IterBackwards(f, -1) from offset on; offset 0,
\* the current epoch, changes nothing.
RECURSIVE ReportUpdatedPeakIter(_, _, _, _)
ReportUpdatedPeakIter(c, offset, current_peak, largest_peak_already_confirmed) ==
  IF offset >= kEpochs THEN c
  ELSE ReportUpdatedPeakIter(
         ReportUpdatedPeakEntry(c, offset, c.entries[offset + 1], current_peak,
                                largest_peak_already_confirmed),
         offset + 1, current_peak,
         Max(largest_peak_already_confirmed, c.entries[offset + 1].max_confirmed_peak))

\* ReportUpdatedPeak once the peak is recorded in tracker_, c1 being the
\* tracker with pending_skipped_ reset and last_confirmed_peak_ reset if the
\* epoch changed.
ReportUpdatedPeakRecompute(c1, current_peak) ==
  [ReportUpdatedPeakIter(c1, 1, current_peak, c1.last_confirmed_peak_)
   EXCEPT !.last_confirmed_peak_ = Max(c1.last_confirmed_peak_, current_peak)]

\* Faulty variant of ReportUpdatedPeak: the confirmed decisions are
\* recomputed as the pending ones are.
ReportUpdatedPeakRecount(c, current_peak) ==
  ReportUpdatedPeakRecompute(
    [SkippedTrackerReport(c, [NoUpdate EXCEPT !.confirmed_peak = current_peak])
     EXCEPT !.last_confirmed_peak_ = IF c.elapsed > 0 THEN 0 ELSE @,
            !.pending_skipped_ = Zero,
            !.correctly_skipped_ = Zero],
    current_peak)

\* SkippedSubreleaseCorrectnessTracker::ReportUpdatedPeak(current_peak)
ReportUpdatedPeak(c, current_peak) ==
  ReportUpdatedPeakRecompute(
    [SkippedTrackerReport(c, [NoUpdate EXCEPT !.confirmed_peak = current_peak])
     EXCEPT !.last_confirmed_peak_ = IF c.elapsed > 0 THEN 0 ELSE @,
            !.pending_skipped_ = Zero],
    current_peak)

\* ------------------------------------------------------------------------
\* HugePageFiller
\* A world W is [f |-> the filler's fields, t |-> the PageTracker objects,
\* s |-> subrelease_stats_, h |-> the time series of fillerstats_tracker_,
\* k |-> the calls of fillerstats_tracker_.ReportSkippedSubreleasePages made
\* so far, each as <<pages, peak_pages>>].
\* ------------------------------------------------------------------------
\* HugePageFiller::HugePageFiller(clock, allocs_option, chunks_per_alloc, unback)
NewHugePageFiller(allocs_option) ==
  [regular_alloc_                  |-> [d \in Density |-> EmptyLists],
   donated_alloc_                  |-> EmptyLists,
   regular_alloc_partial_released_ |-> [d \in Density |-> EmptyLists],
   regular_alloc_released_         |-> [d \in Density |-> EmptyLists],
   n_used_released_                |-> [d \in Density |-> 0],
   n_was_released_                 |-> [d \in Density |-> 0],
   n_used_partial_released_        |-> [d \in Density |-> 0],
   allocs_for_sparse_and_dense_spans_ |-> allocs_option,
   size_                           |-> 0,
   pages_allocated_                |-> [d \in Density |-> 0],
   unmapped_                       |-> 0,
   unmapping_unaccounted_          |-> 0]

\* Number of significant bits of x (0 for x = 0).
RECURSIVE BitLength(_)
BitLength(x) == IF x = 0 THEN 0 ELSE 1 + BitLength(x \div 2)
\* __builtin_clzl on a 64-bit size_t; 2 * na - 1 wraps for na = 0.
Clzl(x) == 64 - BitLength(x)

\* Faulty variant of IndexForChunks: the spread is not clamped at the left
\* edge.
IndexForChunksUnclamped(chunks_per_alloc, na) ==
  LET neg_ceil_log == IF na = 0 THEN 0 ELSE Clzl(2 * na - 1)
      kOffset == Clzl(1) - (chunks_per_alloc - 1)
  IN neg_ceil_log - kOffset

\* HugePageFiller::IndexFor(pt) in a filler constructed with
\* chunks_per_alloc, na being pt->nallocs().
IndexForChunks(chunks_per_alloc, na) ==
  LET neg_ceil_log == IF na = 0 THEN 0 ELSE Clzl(2 * na - 1)
      kOffset == Clzl(1) - (chunks_per_alloc - 1)
  IN Max(neg_ceil_log, kOffset) - kOffset

\* A tracker with one allocation in a filler constructed with
\* chunks_per_alloc.
NewIndexing(chunks_per_alloc) ==
  [chunks_per_alloc_ |-> chunks_per_alloc, nallocs |-> 1,
   index |-> IndexForChunks(chunks_per_alloc, 1)]

\* Faulty variant of IndexFor: the chunks are numbered the other way round.
IndexForReversed(pt) ==
  LET na == nallocs(pt)
      neg_ceil_log == IF na = 0 THEN 0 ELSE Clzl(2 * na - 1)
      kOffset == Clzl(1) - (ChunksPerAlloc - 1)
  IN (ChunksPerAlloc - 1) - (Max(neg_ceil_log, kOffset) - kOffset)

\* HugePageFiller::IndexFor(pt)
IndexFor(pt) == IndexForChunks(ChunksPerAlloc, nallocs(pt))

\* HugePageFiller::ListFor(longest, chunk)
ListFor(longest, chunk) == longest * ChunksPerAlloc + chunk

\* The AccessDensityPrediction a request or tracker is filed under.
TypeFor(f, dense) ==
  IF f.allocs_for_sparse_and_dense_spans_ = kSeparateAllocs /\ dense
  THEN kDense ELSE kSparse

\* Faulty variant of RemoveFromFillerList: a donated tracker stays on the
\* donated list.
RemoveFromFillerListKeepDonated(W, id) ==
  LET pt == W.t[id]
      f == W.f
      longest == longest_free_range(pt)
      i == ListFor(longest, IndexFor(pt))
      type == TypeFor(f, pt.has_dense_spans_)
  IN IF pt.donated_
     THEN W
     ELSE IF ~released(pt)
     THEN [W EXCEPT !.f.regular_alloc_[type] = ListRemove(@, id, i)]
     ELSE IF free_pages(pt) <= released_pages(pt)
     THEN [W EXCEPT !.f.regular_alloc_released_[type] = ListRemove(@, id, i),
                    !.f.n_used_released_[type] = @ - used_pages(pt)]
     ELSE [W EXCEPT !.f.regular_alloc_partial_released_[type] = ListRemove(@, id, i),
                    !.f.n_used_partial_released_[type] = @ - used_pages(pt)]

\* HugePageFiller::RemoveFromFillerList(pt)
RemoveFromFillerList(W, id) ==
  LET pt == W.t[id]
      f == W.f
      longest == longest_free_range(pt)
      i == ListFor(longest, IndexFor(pt))
      type == TypeFor(f, pt.has_dense_spans_)
  IN IF pt.donated_
     THEN [W EXCEPT !.f.donated_alloc_ = ListRemove(@, id, longest)]
     ELSE IF ~released(pt)
     THEN [W EXCEPT !.f.regular_alloc_[type] = ListRemove(@, id, i)]
     ELSE IF free_pages(pt) <= released_pages(pt)
     THEN [W EXCEPT !.f.regular_alloc_released_[type] = ListRemove(@, id, i),
                    !.f.n_used_released_[type] = @ - used_pages(pt)]
     ELSE [W EXCEPT !.f.regular_alloc_partial_released_[type] = ListRemove(@, id, i),
                    !.f.n_used_partial_released_[type] = @ - used_pages(pt)]

\* Faulty variant of AddToFillerList: the donated flag is left as it is.
AddToFillerListKeepDonated(W, id) ==
  LET pt == W.t[id]
      i == ListFor(longest_free_range(pt), IndexFor(pt))
      type == TypeFor(W.f, pt.has_dense_spans_)
  IN IF ~released(pt)
     THEN [W EXCEPT !.f.regular_alloc_[type] = ListAdd(@, id, i)]
     ELSE IF free_pages(pt) <= released_pages(pt)
     THEN [W EXCEPT !.f.regular_alloc_released_[type] = ListAdd(@, id, i),
                    !.f.n_used_released_[type] = @ + used_pages(pt)]
     ELSE [W EXCEPT !.f.regular_alloc_partial_released_[type] = ListAdd(@, id, i),
                    !.f.n_used_partial_released_[type] = @ + used_pages(pt)]

\* Faulty variant of AddToFillerList: a tracker counts as fully released only
\* when it has fewer free pages than released pages.
AddToFillerListStrict(W, id) ==
  LET pt == [W.t[id] EXCEPT !.donated_ = FALSE]
      W1 == [W EXCEPT !.t[id] = pt]
      i == ListFor(longest_free_range(pt), IndexFor(pt))
      type == TypeFor(W.f, pt.has_dense_spans_)
  IN IF ~released(pt)
     THEN [W1 EXCEPT !.f.regular_alloc_[type] = ListAdd(@, id, i)]
     ELSE IF free_pages(pt) < released_pages(pt)
     THEN [W1 EXCEPT !.f.regular_alloc_released_[type] = ListAdd(@, id, i),
                     !.f.n_used_released_[type] = @ + used_pages(pt)]
     ELSE [W1 EXCEPT !.f.regular_alloc_partial_released_[type] = ListAdd(@, id, i),
                     !.f.n_used_partial_released_[type] = @ + used_pages(pt)]

\* HugePageFiller::AddToFillerList(pt)
AddToFillerList(W, id) ==
  LET pt == [W.t[id] EXCEPT !.donated_ = FALSE]
      W1 == [W EXCEPT !.t[id] = pt]
      i == ListFor(longest_free_range(pt), IndexFor(pt))
      type == TypeFor(W.f, pt.has_dense_spans_)
  IN IF ~released(pt)
     THEN [W1 EXCEPT !.f.regular_alloc_[type] = ListAdd(@, id, i)]
     ELSE IF free_pages(pt) <= released_pages(pt)
     THEN [W1 EXCEPT !.f.regular_alloc_released_[type] = ListAdd(@, id, i),
                     !.f.n_used_released_[type] = @ + used_pages(pt)]
     ELSE [W1 EXCEPT !.f.regular_alloc_partial_released_[type] = ListAdd(@, id, i),
                     !.f.n_used_partial_released_[type] = @ + used_pages(pt)]

\* HugePageFiller::DonateToFillerList(pt)
DonateToFillerList(W, id) ==
  LET pt == [W.t[id] EXCEPT !.donated_ = TRUE]
  IN [W EXCEPT !.t[id] = pt,
               !.f.donated_alloc_ = ListAdd(@, id, longest_free_range(pt))]

\* Faulty variant of TryGetSearch: the donated list is searched first.
TryGetSearchDonatedFirst(W, n, type, tie) ==
  LET f == W.f
      g1 == GetLeast(f.regular_alloc_[type], ListFor(n, 0), tie)
      g2 == GetLeast(f.donated_alloc_, n, tie)
      g3 == GetLeast(f.regular_alloc_partial_released_[type], ListFor(n, 0), tie)
      g4 == GetLeast(f.regular_alloc_released_[type], ListFor(n, 0), tie)
  IN IF type = kSparse /\ g2.pt # NoTracker
     THEN [W |-> [W EXCEPT !.f.donated_alloc_ = g2.lists],
           pt |-> g2.pt, was_released |-> FALSE]
     ELSE IF g1.pt # NoTracker
     THEN [W |-> [W EXCEPT !.f.regular_alloc_[type] = g1.lists],
           pt |-> g1.pt, was_released |-> FALSE]
     ELSE IF g3.pt # NoTracker
     THEN [W |-> [W EXCEPT !.f.regular_alloc_partial_released_[type] = g3.lists,
                           !.f.n_used_partial_released_[type] = @ - used_pages(W.t[g3.pt])],
           pt |-> g3.pt, was_released |-> TRUE]
     ELSE IF g4.pt # NoTracker
     THEN [W |-> [W EXCEPT !.f.regular_alloc_released_[type] = g4.lists,
                           !.f.n_used_released_[type] = @ - used_pages(W.t[g4.pt])],
           pt |-> g4.pt, was_released |-> TRUE]
     ELSE [W |-> W, pt |-> NoTracker, was_released |-> FALSE]

\* The search of HugePageFiller::TryGet (the do { ... } while (false) block):
\* the tracker taken off its list.
TryGetSearch(W, n, type, tie) ==
  LET f == W.f
      g1 == GetLeast(f.regular_alloc_[type], ListFor(n, 0), tie)
      g2 == GetLeast(f.donated_alloc_, n, tie)
      g3 == GetLeast(f.regular_alloc_partial_released_[type], ListFor(n, 0), tie)
      g4 == GetLeast(f.regular_alloc_released_[type], ListFor(n, 0), tie)
  IN IF g1.pt # NoTracker
     THEN [W |-> [W EXCEPT !.f.regular_alloc_[type] = g1.lists],
           pt |-> g1.pt, was_released |-> FALSE]
     ELSE IF type = kSparse /\ g2.pt # NoTracker
     THEN [W |-> [W EXCEPT !.f.donated_alloc_ = g2.lists],
           pt |-> g2.pt, was_released |-> FALSE]
     ELSE IF g3.pt # NoTracker
     THEN [W |-> [W EXCEPT !.f.regular_alloc_partial_released_[type] = g3.lists,
                           !.f.n_used_partial_released_[type] = @ - used_pages(W.t[g3.pt])],
           pt |-> g3.pt, was_released |-> TRUE]
     ELSE IF g4.pt # NoTracker
     THEN [W |-> [W EXCEPT !.f.regular_alloc_released_[type] = g4.lists,
                           !.f.n_used_released_[type] = @ - used_pages(W.t[g4.pt])],
           pt |-> g4.pt, was_released |-> TRUE]
     ELSE [W |-> W, pt |-> NoTracker, was_released |-> FALSE]

\* HugePageFiller::pages_allocated()
pages_allocated(f) == f.pages_allocated_[kSparse] + f.pages_allocated_[kDense]

\* HugePageFiller::used_pages()
filler_used_pages(f) == pages_allocated(f)

\* HugePageFiller::unmapped_pages()
unmapped_pages(f) == f.unmapped_

\* HugePageFiller::free_pages()
filler_free_pages(f) == f.size_ * P - filler_used_pages(f) - unmapped_pages(f)

\* HugePageFiller::UpdateFillerStatsTracker(): the sample of the current
\* demand goes to the time series, and the subrelease counters of the period
\* are handed over with it and reset.
UpdateFillerStatsTracker(W) ==
  [W EXCEPT !.h = TimeSeriesReport(@, pages_allocated(W.f)), !.s = reset(@)]

\* Faulty variant of TryGetAccount: was_released is recorded and counted
\* whether or not the tracker has it set already.
TryGetAccountRecount(s, n, type, page_allocation, W1) ==
  LET latch == s.was_released /\ ~released(W1.t[s.pt])
  IN [W |-> UpdateFillerStatsTracker(
              [W1 EXCEPT !.f.pages_allocated_[type] = @ + n,
                         !.t[s.pt].was_released_ = IF latch THEN TRUE ELSE @,
                         !.f.n_was_released_[type] = IF latch THEN @ + 1 ELSE @,
                         !.f.unmapped_ = @ - page_allocation.previously_unbacked]),
      pt |-> s.pt, page |-> page_allocation.page, from_released |-> s.was_released]

\* TryGet after pt->Get(n) and AddToFillerList(pt) (giving W1): the counters.
TryGetAccount(s, n, type, page_allocation, W1) ==
  LET latch == s.was_released /\ ~released(W1.t[s.pt]) /\ ~W1.t[s.pt].was_released_
  IN [W |-> UpdateFillerStatsTracker(
              [W1 EXCEPT !.f.pages_allocated_[type] = @ + n,
                         !.t[s.pt].was_released_ = IF latch THEN TRUE ELSE @,
                         !.f.n_was_released_[type] = IF latch THEN @ + 1 ELSE @,
                         !.f.unmapped_ = @ - page_allocation.previously_unbacked]),
      pt |-> s.pt, page |-> page_allocation.page, from_released |-> s.was_released]

\* TryGet after pt->Get(n): AddToFillerList(pt).
TryGetAdd(s, n, type, page_allocation) ==
  TryGetAccount(s, n, type, page_allocation,
                AddToFillerList([s.W EXCEPT !.t[s.pt] = page_allocation.pt], s.pt))

\* TryGet after the search s: the not-found return, or pt->Get(n).
TryGetFound(W, n, type, s) ==
  IF s.pt = NoTracker
  THEN [W |-> W, pt |-> NoTracker, page |-> 0, from_released |-> FALSE]
  ELSE TryGetAdd(s, n, type, PageTrackerGet(s.W.t[s.pt], n))

\* Faulty variant of TryGet: the search asks for one page more than n.
TryGetSearchTooLong(W, n, density, tie) ==
  TryGetFound(W, n, TypeFor(W.f, density = kDense),
              TryGetSearch(W, n + 1, TypeFor(W.f, density = kDense), tie))

\* HugePageFiller::TryGet(n, span_alloc_info)
TryGet(W, n, density, tie) ==
  TryGetFound(W, n, TypeFor(W.f, density = kDense),
              TryGetSearch(W, n, TypeFor(W.f, density = kDense), tie))

\* What TryGet assumes of n on entry (line 1450).
TryGetPrecondition(n) == n < P

\* The results a TryGet(n, span_alloc_info) call can have, as [kind, pt].
\* With n < kPagesPerHugePage: what TryGet returns, a tracker ("found") or
\* nullptr ("not_found").  Otherwise the assumption of line 1450 is broken:
\* a build that checks it stops there ("check_failed"), and a build that
\* compiles it to an optimizer hint has undefined behaviour, any return
\* value being possible.
TryGetOutcomes(W, n, density, tie) ==
  IF TryGetPrecondition(n)
  THEN {[kind |-> IF TryGet(W, n, density, tie).pt = NoTracker THEN "not_found" ELSE "found",
         pt   |-> TryGet(W, n, density, tie).pt]}
  ELSE {[kind |-> "check_failed", pt |-> NoTracker], [kind |-> "not_found", pt |-> NoTracker]}
         \cup {[kind |-> "found", pt |-> id] : id \in Trackers}

\* The end of HugePageFiller::Put for a tracker that became empty: the
\* was_released bookkeeping, after which pt is returned.
PutReturnEmpty(W, id) ==
  UpdateFillerStatsTracker(
    IF W.t[id].was_released_
    THEN [W EXCEPT !.t[id].was_released_ = FALSE,
                   !.f.n_was_released_[IF W.t[id].has_dense_spans_
                                       THEN kDense ELSE kSparse] = @ - 1]
    ELSE W)

\* Faulty variant of PutFreed: an emptied tracker is handed back at once,
\* partially released or not (pageheap_lock is never dropped).
PutFreedNoUnback(W3, id) ==
  IF longest_free_range(W3.t[id]) = P
  THEN [W |-> PutReturnEmpty(
                [W3 EXCEPT !.f.size_ = @ - 1,
                           !.f.unmapped_ = @ - released_pages(W3.t[id])], id),
        ret |-> id, unlock |-> FALSE]
  ELSE [W |-> AddToFillerList(W3, id), ret |-> NoTracker, unlock |-> FALSE]

\* Faulty variant of PutFreed: the tracker is always put back on a list.
PutFreedNeverReturned(W3, id) ==
  [W |-> AddToFillerList(W3, id), ret |-> NoTracker, unlock |-> FALSE]

\* Faulty variant of PutFreed: a tracker whose huge page is to be unbacked
\* is put back on a list before pageheap_lock is dropped.
PutFreedUnlockListed(W3, id) ==
  IF longest_free_range(W3.t[id]) = P
  THEN IF released(W3.t[id])
       THEN IF free_pages(W3.t[id]) > released_pages(W3.t[id])
            THEN [W |-> AddToFillerList(
                          [W3 EXCEPT !.f.size_ = @ - 1,
                                     !.f.unmapped_ = @ - released_pages(W3.t[id])], id),
                  ret |-> NoTracker, unlock |-> TRUE]
            ELSE [W |-> PutReturnEmpty(
                          [W3 EXCEPT !.f.size_ = @ - 1,
                                     !.f.unmapped_ = @ - released_pages(W3.t[id])], id),
                  ret |-> id, unlock |-> FALSE]
       ELSE [W |-> PutReturnEmpty([W3 EXCEPT !.f.size_ = @ - 1], id),
             ret |-> id, unlock |-> FALSE]
  ELSE [W |-> UpdateFillerStatsTracker(AddToFillerList(W3, id)),
        ret |-> NoTracker, unlock |-> FALSE]

\* Faulty variant of PutFreed: the huge page of a partially released
\* tracker is unbacked whether the tracker is entirely free or not.
PutFreedUnbackInUse(W3, id) ==
  IF released(W3.t[id]) /\ free_pages(W3.t[id]) > released_pages(W3.t[id])
  THEN [W |-> [W3 EXCEPT !.f.size_ = @ - 1,
                         !.f.unmapped_ = @ - released_pages(W3.t[id])],
        ret |-> NoTracker, unlock |-> TRUE]
  ELSE IF longest_free_range(W3.t[id]) = P
  THEN [W |-> PutReturnEmpty(
                IF released(W3.t[id])
                THEN [W3 EXCEPT !.f.size_ = @ - 1,
                                !.f.unmapped_ = @ - released_pages(W3.t[id])]
                ELSE [W3 EXCEPT !.f.size_ = @ - 1], id),
        ret |-> id, unlock |-> FALSE]
  ELSE [W |-> UpdateFillerStatsTracker(AddToFillerList(W3, id)),
        ret |-> NoTracker, unlock |-> FALSE]

\* Put after pt->Put(p, n) and the pages_allocated_ update (giving W3): the
\* tracker is handed back when it is entirely free, and re-listed otherwise.
\* unlock tells that pageheap_lock was dropped to unback the rest of a
\* partially released huge page; ret is the tracker returned.
PutFreed(W3, id) ==
  IF longest_free_range(W3.t[id]) = P
  THEN IF released(W3.t[id])
       THEN IF free_pages(W3.t[id]) > released_pages(W3.t[id])
            THEN [W |-> [W3 EXCEPT !.f.size_ = @ - 1,
                                   !.f.unmapped_ = @ - released_pages(W3.t[id])],
                  ret |-> NoTracker, unlock |-> TRUE]
            ELSE [W |-> PutReturnEmpty(
                          [W3 EXCEPT !.f.size_ = @ - 1,
                                     !.f.unmapped_ = @ - released_pages(W3.t[id])], id),
                  ret |-> id, unlock |-> FALSE]
       ELSE [W |-> PutReturnEmpty([W3 EXCEPT !.f.size_ = @ - 1], id),
             ret |-> id, unlock |-> FALSE]
  ELSE [W |-> UpdateFillerStatsTracker(AddToFillerList(W3, id)),
        ret |-> NoTracker, unlock |-> FALSE]

\* Faulty variant of PutUnmark: pages_allocated_ is left alone.
PutUnmarkUncounted(W1, id, p, n) ==
  [W1 EXCEPT !.t[id] = PageTrackerPut(@, p, n)]

\* Put after RemoveFromFillerList(pt) (giving W1): pt->Put(p, n) and the
\* pages_allocated_ update.
PutUnmark(W1, id, p, n) ==
  [W1 EXCEPT !.t[id] = PageTrackerPut(@, p, n),
             !.f.pages_allocated_[IF W1.t[id].has_dense_spans_
                                  THEN kDense ELSE kSparse] = @ - n]

\* HugePageFiller::Put(pt, p, n) up to the point where it returns or drops
\* pageheap_lock.
Put(W, id, p, n) == PutFreed(PutUnmark(RemoveFromFillerList(W, id), id, p, n), id)

\* HugePageFiller::Put from the return of unback_ (pageheap_lock taken
\* again) to its return.
PutAfterUnback(W, id, success) ==
  [W |-> PutReturnEmpty(
           IF success
           THEN [W EXCEPT !.f.unmapping_unaccounted_ =
                            @ + (free_pages(W.t[id]) - released_pages(W.t[id]))]
           ELSE W, id),
   ret |-> id]

\* Contribute after pages_allocated_[type] += pt->used_pages().
ContributeAdd(W1, id, donated, type) ==
  IF donated THEN DonateToFillerList(W1, id)
  ELSE AddToFillerList(
         IF type = kDense THEN [W1 EXCEPT !.t[id].has_dense_spans_ = TRUE] ELSE W1, id)

\* Contribute: ++size_ and UpdateFillerStatsTracker().
ContributeSize(W2) == UpdateFillerStatsTracker([W2 EXCEPT !.f.size_ = @ + 1])

\* HugePageFiller::Contribute(pt, donated, span_alloc_info)
Contribute(W, id, donated, density) ==
  ContributeSize(
    ContributeAdd(
      [W EXCEPT !.f.pages_allocated_[TypeFor(W.f, density = kDense)] =
                  @ + used_pages(W.t[id])],
      id, donated, TypeFor(W.f, density = kDense)))

\* HugePageFiller::CompareForSubrelease(a, b), on PageTracker values.
CompareForSubrelease(a, b) ==
  IF used_pages(a) < used_pages(b) THEN TRUE
  ELSE IF used_pages(a) > used_pages(b) THEN FALSE
  ELSE IF a.has_dense_spans_ THEN FALSE
  ELSE b.has_dense_spans_

RECURSIVE IterOrder(_, _, _)
\* HintedTrackerLists::Iter(func, start): the trackers of the bins >= start
\* in the order they are visited (bins ascending; within a bin by tie).
IterOrder(lists, start, tie) ==
  IF {x \in lists : x[1] >= start} = {} THEN <<>>
  ELSE LET i == LeastBin(lists, start)
           pt == First(Bin(lists, i), tie)
       IN <<pt>> \o IterOrder(ListRemove(lists, pt, i), i, tie)

\* Faulty variant of PushCandidate: once the heap is full no candidate is
\* replaced.
PushCandidateFirstCome(W, candidates, id, tie) ==
  IF Cardinality(candidates) < kCandidatesForReleasingMemory
  THEN candidates \cup {id}
  ELSE candidates

\* The lambda PushCandidate of SelectCandidates: candidates is the set of
\* trackers in the bounded heap, whose top is a worst candidate.
PushCandidate(W, candidates, id, tie) ==
  IF Cardinality(candidates) < kCandidatesForReleasingMemory
  THEN candidates \cup {id}
  ELSE LET worst == {c \in candidates :
                       \A d \in candidates : ~CompareForSubrelease(W.t[c], W.t[d])}
           top == First(worst, tie)
       IN IF CompareForSubrelease(W.t[top], W.t[id]) THEN candidates
          ELSE (candidates \ {top}) \cup {id}

RECURSIVE PushAll(_, _, _, _)
\* PushCandidate on the trackers of order, one after the other.
PushAll(W, candidates, order, tie) ==
  IF order = <<>> THEN candidates
  ELSE PushAll(W, PushCandidate(W, candidates, Head(order), tie), Tail(order), tie)

\* HugePageFiller::SelectCandidates(candidates, current_candidates,
\* tracker_list, tracker_start)
SelectCandidates(W, candidates, tracker_list, tracker_start, tie) ==
  PushAll(W, candidates, IterOrder(tracker_list, tracker_start, tie), tie)

RECURSIVE SortCandidates(_, _, _)
\* absl::c_sort(candidates, CompareForSubrelease): equivalent candidates
\* come in an order the sort does not fix (here: by tie).
SortCandidates(W, candidates, tie) ==
  IF candidates = {} THEN <<>>
  ELSE LET best == {c \in candidates :
                      \A d \in candidates : ~CompareForSubrelease(W.t[d], W.t[c])}
           b == First(best, tie)
       IN <<b>> \o SortCandidates(W, candidates \ {b}, tie)

\* Faulty variant of ReleaseCandidateAdd: unmapped_ is left alone.
ReleaseCandidateAddUncounted(W1, id, r) ==
  [W |-> AddToFillerList([W1 EXCEPT !.t[id] = r.pt], id), ret |-> r.count]

\* ReleaseCandidates, for one candidate: unmapped_ += ret and
\* AddToFillerList(best), r being the result of best->ReleaseFree(unback_).
ReleaseCandidateAdd(W1, id, r) ==
  [W |-> AddToFillerList([W1 EXCEPT !.t[id] = r.pt, !.f.unmapped_ = @ + r.count], id),
   ret |-> r.count]

\* ReleaseCandidates, for one candidate after RemoveFromFillerList(best):
\* best->ReleaseFree(unback_).  bad is the set of <<tracker, page offset>>
\* at which unback fails.
ReleaseCandidateFree(W1, id, bad) ==
  ReleaseCandidateAdd(W1, id, ReleaseFree(W1.t[id], {p \in Pages : <<id, p>> \in bad}))

\* One iteration of the for loop of ReleaseCandidates, on tracker id.
ReleaseCandidate(W, id, bad) ==
  ReleaseCandidateFree(RemoveFromFillerList(W, id), id, bad)

RECURSIVE ReleaseCandidatesLoop(_, _, _, _, _, _)
\* The for loop of ReleaseCandidates after the iteration that gave r.
ReleaseCandidatesStep(r, rest, target, total_released, total_broken, bad) ==
  ReleaseCandidatesLoop(r.W, rest, target, total_released + r.ret, total_broken, bad)

\* The for loop of ReleaseCandidates over the sorted candidates.
ReleaseCandidatesLoop(W, sorted, target, total_released, total_broken, bad) ==
  IF sorted = <<>> \/ ~(total_released < target)
  THEN [W |-> W, total_released |-> total_released, total_broken |-> total_broken]
  ELSE ReleaseCandidatesStep(
         ReleaseCandidate(W, Head(sorted), bad), Tail(sorted), target, total_released,
         IF W.t[Head(sorted)].unbroken_ THEN total_broken + 1 ELSE total_broken, bad)

\* ReleaseCandidates after its for loop gave r: the subrelease statistics.
ReleaseCandidatesStats(r) ==
  [W |-> [r.W EXCEPT
            !.s.num_pages_subreleased = @ + r.total_released,
            !.s.num_hugepages_broken = @ + r.total_broken,
            !.s.total_pages_subreleased_due_to_limit =
              IF limit_hit(r.W.s) THEN @ + r.total_released ELSE @,
            !.s.total_hugepages_broken_due_to_limit =
              IF limit_hit(r.W.s) THEN @ + r.total_broken ELSE @],
   total_released |-> r.total_released, total_broken |-> r.total_broken]

\* HugePageFiller::ReleaseCandidates(candidates, target)
ReleaseCandidates(W, candidates, target, bad, tie) ==
  ReleaseCandidatesStats(
    ReleaseCandidatesLoop(W, SortCandidates(W, candidates, tie), target, 0, 0, bad))

\* HugePageFiller::used_pages_in_any_subreleased()
used_pages_in_any_subreleased(f) ==
  f.n_used_released_[kDense] + f.n_used_released_[kSparse] +
  f.n_used_partial_released_[kDense] + f.n_used_partial_released_[kSparse]

\* HugePageFiller::FreePagesInPartialAllocs()
FreePagesInPartialAllocs(f) ==
  ListSize(f.regular_alloc_partial_released_[kSparse]) * P +
  ListSize(f.regular_alloc_partial_released_[kDense]) * P +
  ListSize(f.regular_alloc_released_[kSparse]) * P +
  ListSize(f.regular_alloc_released_[kDense]) * P -
  used_pages_in_any_subreleased(f) - f.unmapped_

\* The candidates of the first while loop of ReleasePages.
PartialCandidates(W, tie) ==
  SelectCandidates(
    W,
    SelectCandidates(W, {}, W.f.regular_alloc_partial_released_[kSparse],
                     ChunksPerAlloc, tie),
    W.f.regular_alloc_partial_released_[kDense], ChunksPerAlloc, tie)

\* The candidates of the second while loop of ReleasePages.
RegularCandidates(W, tie) ==
  SelectCandidates(
    W,
    SelectCandidates(
      W,
      SelectCandidates(W, {}, W.f.regular_alloc_[kSparse], ChunksPerAlloc, tie),
      W.f.regular_alloc_[kDense], ChunksPerAlloc, tie),
    W.f.donated_alloc_, 0, tie)

RECURSIVE ReleasePartialLoop(_, _, _, _, _)
\* First while loop of ReleasePages after ReleaseCandidates gave r.
ReleasePartialStep(r, total_released, desired, bad, tie) ==
  IF r.total_released = 0
  THEN [W |-> [r.W EXCEPT !.s.num_partial_alloc_pages_subreleased = @ + r.total_released],
        total_released |-> total_released]
  ELSE ReleasePartialLoop(
         [r.W EXCEPT !.s.num_partial_alloc_pages_subreleased = @ + r.total_released],
         total_released + r.total_released, desired, bad, tie)

\* First while loop of ReleasePages: partially released trackers.
ReleasePartialLoop(W, total_released, desired, bad, tie) ==
  IF ~(total_released < desired) THEN [W |-> W, total_released |-> total_released]
  ELSE ReleasePartialStep(
         ReleaseCandidates(W, PartialCandidates(W, tie), desired - total_released, bad, tie),
         total_released, desired, bad, tie)

RECURSIVE ReleaseRegularLoop(_, _, _, _, _)
\* Second while loop of ReleasePages after ReleaseCandidates gave r.
ReleaseRegularStep(r, total_released, desired, bad, tie) ==
  IF r.total_released = 0
  THEN [W |-> r.W, total_released |-> total_released]
  ELSE ReleaseRegularLoop(r.W, total_released + r.total_released, desired, bad, tie)

\* Second while loop of ReleasePages: regular and donated trackers.
ReleaseRegularLoop(W, total_released, desired, bad, tie) ==
  IF ~(total_released < desired) THEN [W |-> W, total_released |-> total_released]
  ELSE ReleaseRegularStep(
         ReleaseCandidates(W, RegularCandidates(W, tie), desired - total_released, bad, tie),
         total_released, desired, bad, tie)

\* ReleasePages: the second while loop, r1 being the outcome of the first,
\* and the return.
ReleasePagesRegular(r1, desired, bad, tie) ==
  ReleaseRegularLoop(r1.W, r1.total_released, desired, bad, tie)

\* Faulty variant of ReleasePagesUnaccounted: unmapping_unaccounted_ is
\* credited and kept.
ReleasePagesUnaccountedKept(W) ==
  [W EXCEPT !.s.num_pages_subreleased = @ + W.f.unmapping_unaccounted_]

\* ReleasePages: unmapping_unaccounted_ is drained into total_released and
\* into num_pages_subreleased.
ReleasePagesUnaccounted(W) ==
  [W EXCEPT !.f.unmapping_unaccounted_ = 0,
            !.s.num_pages_subreleased = @ + W.f.unmapping_unaccounted_]

\* ReleasePages: set_limit_hit(hit_limit) and the first while loop, W1 being
\* the world and total_released the amount after the draining of
\* unmapping_unaccounted_.
ReleasePagesPartial(W1, total_released, desired, hit_limit, bad, tie) ==
  ReleasePartialLoop([W1 EXCEPT !.s = set_limit_hit(@, hit_limit)],
                     total_released, desired, bad, tie)

\* Faulty variant of ReleasePagesLoops: the regular and donated trackers are
\* released from before the partially released ones.
ReleasePagesLoopsRegularFirst(W1, total_released, desired, hit_limit, bad, tie) ==
  ReleasePartialLoop(
    ReleaseRegularLoop([W1 EXCEPT !.s = set_limit_hit(@, hit_limit)],
                       total_released, desired, bad, tie).W,
    ReleaseRegularLoop([W1 EXCEPT !.s = set_limit_hit(@, hit_limit)],
                       total_released, desired, bad, tie).total_released,
    desired, bad, tie)

\* ReleasePages from set_limit_hit(hit_limit) on: the two while loops and
\* the return.
ReleasePagesLoops(W1, total_released, desired, hit_limit, bad, tie) ==
  ReleasePagesRegular(
    ReleasePagesPartial(W1, total_released, desired, hit_limit, bad, tie),
    desired, bad, tie)

\* GetDesiredSubreleasePages: fillerstats_tracker_.ReportSkippedSubreleasePages(
\* pages, peak_pages), which ignores a report of no pages.
ReportSkippedSubreleasePages(W, pages, peak_pages) ==
  IF pages = 0 THEN W ELSE [W EXCEPT !.k = Append(@, <<pages, peak_pages>>)]

\* GetDesiredSubreleasePages from new_desired < desired on: the skipped
\* pages are reported and new_desired is returned.
GetDesiredSkipped(W, desired, total_released, new_desired, current_pages, required_pages) ==
  [W |-> ReportSkippedSubreleasePages(
           W,
           Min(filler_free_pages(W.f)
                 - Min(filler_free_pages(W.f), new_desired - total_released),
               desired - new_desired),
           Min(current_pages, required_pages)),
   desired |-> new_desired]

\* GetDesiredSubreleasePages once new_desired is computed.
GetDesiredNew(W, desired, total_released, new_desired, current_pages, required_pages) ==
  IF new_desired >= desired THEN [W |-> W, desired |-> desired]
  ELSE GetDesiredSkipped(W, desired, total_released, new_desired, current_pages,
                         required_pages)

\* Faulty variant of GetDesiredRequired: the pages above the requirement
\* are not allowed to be released.
GetDesiredRequiredNoExcess(W, desired, total_released, current_pages, required_pages) ==
  IF required_pages # 0
  THEN GetDesiredNew(W, desired, total_released, total_released, current_pages,
                     required_pages)
  ELSE [W |-> W, desired |-> desired]

\* GetDesiredSubreleasePages from current_pages = used_pages() +
\* free_pages() on, required_pages being the demand requirement.
GetDesiredRequired(W, desired, total_released, current_pages, required_pages) ==
  IF required_pages # 0
  THEN GetDesiredNew(W, desired, total_released,
                     IF required_pages >= current_pages THEN total_released
                     ELSE total_released + (current_pages - required_pages),
                     current_pages, required_pages)
  ELSE [W |-> W, desired |-> desired]

\* GetDesiredSubreleasePages after UpdateFillerStatsTracker() gave W1.
GetDesiredUpdated(W1, desired, total_released, intervals) ==
  GetDesiredRequired(
    W1, desired, total_released,
    filler_used_pages(W1.f) + filler_free_pages(W1.f),
    IF IsPeakIntervalSet(intervals)
    THEN GetRecentPeak(W1.h, intervals.peak_interval)
    ELSE GetRecentDemand(W1.h, intervals.short_interval, intervals.long_interval))

\* HugePageFiller::GetDesiredSubreleasePages(desired, total_released,
\* intervals): the world after the call and the value returned.
GetDesiredSubreleasePages(W, desired, total_released, intervals) ==
  IF ~SkipSubreleaseEnabled(intervals) THEN [W |-> W, desired |-> desired]
  ELSE GetDesiredUpdated(UpdateFillerStatsTracker(W), desired, total_released, intervals)

\* ReleasePages after GetDesiredSubreleasePages gave g.
ReleasePagesSkipped(g, total_released, hit_limit, bad, tie) ==
  IF g.desired <= total_released
  THEN [W |-> g.W, total_released |-> total_released]
  ELSE ReleasePagesLoops(g.W, total_released, g.desired, hit_limit, bad, tie)

\* Faulty variant of ReleasePagesSkip: skip-subrelease is applied when the
\* limit is hit, too.
ReleasePagesSkipAtLimit(W1, total_released, desired, intervals, hit_limit, bad, tie) ==
  IF SkipSubreleaseEnabled(intervals)
  THEN ReleasePagesSkipped(
         GetDesiredSubreleasePages(W1, desired, total_released, intervals),
         total_released, hit_limit, bad, tie)
  ELSE ReleasePagesLoops(W1, total_released, desired, hit_limit, bad, tie)

\* ReleasePages from the skip-subrelease step on, W1 being the world and
\* total_released the amount after the draining of unmapping_unaccounted_.
ReleasePagesSkip(W1, total_released, desired, intervals, hit_limit, bad, tie) ==
  IF SkipSubreleaseEnabled(intervals) /\ ~hit_limit
  THEN ReleasePagesSkipped(
         GetDesiredSubreleasePages(W1, desired, total_released, intervals),
         total_released, hit_limit, bad, tie)
  ELSE ReleasePagesLoops(W1, total_released, desired, hit_limit, bad, tie)

\* ReleasePages from the draining of unmapping_unaccounted_ on, desired
\* being the target.
ReleasePagesDrain(W, desired, intervals, hit_limit, bad, tie) ==
  IF W.f.unmapping_unaccounted_ >= desired
  THEN [W |-> ReleasePagesUnaccounted(W),
        total_released |-> W.f.unmapping_unaccounted_]
  ELSE ReleasePagesSkip(ReleasePagesUnaccounted(W), W.f.unmapping_unaccounted_,
                        desired, intervals, hit_limit, bad, tie)

\* HugePageFiller::ReleasePages(desired, intervals, release_partial_alloc_pages,
\* hit_limit)
ReleasePages(W, desired, intervals, release_partial_alloc_pages, hit_limit, bad, tie) ==
  ReleasePagesDrain(
    W,
    IF release_partial_alloc_pages /\ ~hit_limit
    THEN Max(desired, FreePagesInPartialAllocs(W.f) \div 10)
    ELSE desired,
    intervals, hit_limit, bad, tie)

\* ------------------------------------------------------------------------
\* HugeRegion
\* A region hr is [tracker_ |-> the used pages of the region and the number
\* of allocations, pages_used_, backed_, nbacked_, total_unbacked_]; pages
\* are counted from the first page of the region.  last_touched_ is left
\* out: only AddSpanStats reads it.
\* ------------------------------------------------------------------------
HugePages == 0 .. (kNumHugePages - 1)

\* HugeRegion::size().in_pages()
RegionSize == kNumHugePages * P

RegionPages == 0 .. (RegionSize - 1)

\* RangeTracker<kRegionSize.in_pages()>::longest_free()
RegionLongestFree(bits) ==
  LET lens == {n \in 0 .. RegionSize :
                 \E i \in RegionPages : i + n <= RegionSize /\ Range(i, n) \cap bits = {}}
  IN CHOOSE n \in lens : \A m \in lens : m <= n

\* RangeTracker<kRegionSize.in_pages()>::FindAndMark(n): the offset found,
\* the leftmost free run of at least n pages.
RegionFindIndex(bits, n) ==
  LET fits == {i \in RegionPages : i + n <= RegionSize /\ Range(i, n) \cap bits = {}}
  IN CHOOSE i \in fits : \A j \in fits : i <= j

\* HugeRegion::HugeRegion(r, unback)
NewHugeRegion ==
  [tracker_        |-> [bits |-> {}, nallocs |-> 0],
   pages_used_     |-> [i \in HugePages |-> 0],
   backed_         |-> [i \in HugePages |-> FALSE],
   nbacked_        |-> 0,
   total_unbacked_ |-> 0]

\* HugeRegion::longest_free()
longest_free(hr) == RegionLongestFree(hr.tracker_.bits)

\* HugeRegion::used_pages()
region_used_pages(hr) == Cardinality(hr.tracker_.bits)

\* HugeRegion::unmapped_pages()
region_unmapped_pages(hr) == (kNumHugePages - hr.nbacked_) * P

\* HugeRegion::free_pages()
region_free_pages(hr) == RegionSize - region_unmapped_pages(hr) - region_used_pages(hr)

\* RangeTracker<kRegionSize.in_pages()>::NextFreeRange(start, &index,
\* &length): the first free run at or after start, if there is one.
RegionNextFreeRange(bits, start) ==
  LET zeros == {i \in RegionPages : i >= start /\ i \notin bits} IN
  IF zeros = {} THEN NoRange
  ELSE LET i == CHOOSE z \in zeros : \A y \in zeros : z <= y
           stops == {j \in RegionPages : j > i /\ j \in bits}
           e == IF stops = {} THEN RegionSize
                ELSE CHOOSE s \in stops : \A y \in stops : s <= y
       IN [found |-> TRUE, index |-> i, len |-> e - i]

\* Faulty variant of AddSpanStatsTruncate: a free run is not cut where the
\* backing changes.
AddSpanStatsTruncateNever(hr, p, n, i, is_backed, truncated) == truncated + n

\* HugeRegion::AddSpanStats: the inner while loop, which cuts the unused
\* range of n pages from page p (on huge page i) where the huge pages stop
\* being backed as the first one is; it gives the length kept.
RECURSIVE AddSpanStatsTruncate(_, _, _, _, _, _)
AddSpanStatsTruncate(hr, p, n, i, is_backed, truncated) ==
  IF n > 0 /\ hr.backed_[i] = is_backed
  THEN AddSpanStatsTruncate(hr, p + Min(n, (i + 1) * P - p), n - Min(n, (i + 1) * P - p),
                            i + 1, is_backed, truncated + Min(n, (i + 1) * P - p))
  ELSE truncated

\* AddSpanStats: the outer while loop from the offset index on.  f and u are
\* the free and the released pages counted so far, and pieces the ranges
\* counted, each as <<offset, length, released>> (the span statistics take
\* one entry per piece, by its length; they do not enter f and u).
RECURSIVE AddSpanStatsLoop(_, _, _, _, _)
AddSpanStatsPiece(hr, index, n, f, u, pieces) ==
  AddSpanStatsLoop(
    hr, index + n,
    IF hr.backed_[index \div P] THEN f + n ELSE f,
    IF hr.backed_[index \div P] THEN u ELSE u + n,
    Append(pieces, <<index, n, ~hr.backed_[index \div P]>>))

AddSpanStatsLoop(hr, index, f, u, pieces) ==
  LET r == RegionNextFreeRange(hr.tracker_.bits, index)
  IN IF ~r.found THEN [f |-> f, u |-> u, pieces |-> pieces]
     ELSE AddSpanStatsPiece(
            hr, r.index,
            AddSpanStatsTruncate(hr, r.index, r.len, r.index \div P,
                                 hr.backed_[r.index \div P], 0),
            f, u, pieces)

\* HugeRegion::AddSpanStats(small, large), up to the two CHECK_CONDITIONs:
\* checks tells whether both hold.
AddSpanStats(hr) ==
  LET s == AddSpanStatsLoop(hr, 0, 0, 0, <<>>)
  IN [f |-> s.f, u |-> s.u, pieces |-> s.pieces,
      checks |-> s.f = region_free_pages(hr) /\ s.u = region_unmapped_pages(hr)]

\* HugeRegion::free_backed()
free_backed(hr) == Cardinality({i \in HugePages : hr.backed_[i] /\ hr.pages_used_[i] = 0})

\* HugeRegion::backed()
backed(hr) == Cardinality({i \in HugePages : hr.backed_[i]})

\* Faulty variant of BetterToAllocThan: the longer free run is the better.
BetterToAllocThanLonger(hr, rhs) == longest_free(hr) > longest_free(rhs)

\* HugeRegion::BetterToAllocThan(rhs)
BetterToAllocThan(hr, rhs) == longest_free(hr) < longest_free(rhs)

\* Faulty variant of IncHere: a huge page that gets backed is not counted in
\* nbacked_.
IncHereNoCount(hr, p, here) ==
  IF hr.pages_used_[p \div P] = 0 /\ ~hr.backed_[p \div P]
  THEN [hr EXCEPT !.backed_[p \div P] = TRUE,
                  !.pages_used_[p \div P] = @ + here]
  ELSE [hr EXCEPT !.pages_used_[p \div P] = @ + here]

\* Inc: one round of the while loop for the huge page p is on, here being
\* min(n, lim - p).
IncHere(hr, p, here) ==
  IF hr.pages_used_[p \div P] = 0 /\ ~hr.backed_[p \div P]
  THEN [hr EXCEPT !.backed_[p \div P] = TRUE,
                  !.nbacked_ = @ + 1,
                  !.pages_used_[p \div P] = @ + here]
  ELSE [hr EXCEPT !.pages_used_[p \div P] = @ + here]

\* HugeRegion::Inc(p, n, from_released) from the page p on, should_back being
\* what the rounds before have found.
RECURSIVE Inc(_, _, _, _)
Inc(hr, p, n, should_back) ==
  IF n = 0 THEN [hr |-> hr, from_released |-> should_back]
  ELSE Inc(IncHere(hr, p, Min(n, (p \div P + 1) * P - p)),
           p + Min(n, (p \div P + 1) * P - p),
           n - Min(n, (p \div P + 1) * P - p),
           should_back \/ (hr.pages_used_[p \div P] = 0 /\ ~hr.backed_[p \div P]))

\* Faulty variant of HugeRegionGetDone: the range is always reported as
\* coming from backed memory.
HugeRegionGetDoneBacked(index, r) ==
  [found |-> TRUE, page |-> index, hr |-> r.hr, from_released |-> FALSE]

\* HugeRegion::MaybeGet with n <= longest_free(): what it returns, index
\* being the offset FindAndMark gave and r what Inc gave.
HugeRegionGetDone(index, r) ==
  [found |-> TRUE, page |-> index, hr |-> r.hr, from_released |-> r.from_released]

\* HugeRegion::MaybeGet: FindAndMark gave index; Inc follows.
HugeRegionGetAt(hr, n, index) ==
  HugeRegionGetDone(
    index,
    Inc([hr EXCEPT !.tracker_ = [bits |-> SetRange(@.bits, index, n),
                                 nallocs |-> @.nallocs + 1]],
        index, n, FALSE))

\* HugeRegion::MaybeGet(n, p, from_released)
HugeRegionMaybeGet(hr, n) ==
  IF n > longest_free(hr)
  THEN [found |-> FALSE, page |-> 0, hr |-> hr, from_released |-> FALSE]
  ELSE HugeRegionGetAt(hr, n, RegionFindIndex(hr.tracker_.bits, n))

\* HugeRegion::UnbackHugepages(should_unback) from the huge page i on;
\* should_unback is the set of the flagged huge pages, and unback_ fails on
\* the groups that start at a huge page of bad.  j is the end of the group
\* that starts at i.
RECURSIVE UnbackHugepages(_, _, _, _)
\* Faulty variant of UnbackGroup: the huge pages of a group lose their
\* backed_ flag even when unback_ fails.
UnbackGroupAlwaysFlags(hr, should_unback, bad, i, j) ==
  UnbackHugepages(
    IF i \in bad
    THEN [hr EXCEPT !.backed_ = [k \in HugePages |-> IF i <= k /\ k < j THEN FALSE ELSE @[k]]]
    ELSE [hr EXCEPT !.nbacked_ = @ - (j - i),
                    !.total_unbacked_ = @ + (j - i),
                    !.backed_ = [k \in HugePages |-> IF i <= k /\ k < j THEN FALSE ELSE @[k]]],
    should_unback, bad, j)

UnbackGroup(hr, should_unback, bad, i, j) ==
  UnbackHugepages(
    IF i \in bad THEN hr
    ELSE [hr EXCEPT !.nbacked_ = @ - (j - i),
                    !.total_unbacked_ = @ + (j - i),
                    !.backed_ = [k \in HugePages |-> IF i <= k /\ k < j THEN FALSE ELSE @[k]]],
    should_unback, bad, j)

\* The end of the group of flagged huge pages that starts at i.
GroupEnd(should_unback, i) ==
  CHOOSE j \in (i + 1) .. kNumHugePages :
    /\ \A k \in i .. (j - 1) : k \in should_unback
    /\ (j = kNumHugePages \/ j \notin should_unback)

UnbackHugepages(hr, should_unback, bad, i) ==
  IF i >= kNumHugePages THEN hr
  ELSE IF i \notin should_unback THEN UnbackHugepages(hr, should_unback, bad, i + 1)
  ELSE UnbackGroup(hr, should_unback, bad, i, GroupEnd(should_unback, i))

\* Faulty variant of DecLoop: each round takes one page off pages_used_,
\* however many pages of the range lie on the huge page.
RECURSIVE DecLoopOnePage(_, _, _, _)
DecLoopOnePage(hr, p, n, should_unback) ==
  IF n = 0 THEN [hr |-> hr, should_unback |-> should_unback]
  ELSE DecLoopOnePage([hr EXCEPT !.pages_used_[p \div P] = @ - 1],
                      p + Min(n, (p \div P + 1) * P - p),
                      n - Min(n, (p \div P + 1) * P - p),
                      IF hr.pages_used_[p \div P] = 1
                      THEN should_unback \cup {p \div P} ELSE should_unback)

\* HugeRegion::Dec(p, n, release): the while loop from the page p on,
\* should_unback being the huge pages flagged so far.
RECURSIVE DecLoop(_, _, _, _)
DecLoop(hr, p, n, should_unback) ==
  IF n = 0 THEN [hr |-> hr, should_unback |-> should_unback]
  ELSE DecLoop([hr EXCEPT !.pages_used_[p \div P] = @ - Min(n, (p \div P + 1) * P - p)],
               p + Min(n, (p \div P + 1) * P - p),
               n - Min(n, (p \div P + 1) * P - p),
               IF hr.pages_used_[p \div P] = Min(n, (p \div P + 1) * P - p)
               THEN should_unback \cup {p \div P} ELSE should_unback)

\* Dec after its while loop gave d.
DecRelease(d, release, bad) ==
  IF release THEN UnbackHugepages(d.hr, d.should_unback, bad, 0) ELSE d.hr

\* HugeRegion::Dec(p, n, release)
Dec(hr, p, n, release, bad) == DecRelease(DecLoop(hr, p, n, {}), release, bad)

\* HugeRegion::Put(p, n, release)
HugeRegionPut(hr, p, n, release, bad) ==
  Dec([hr EXCEPT !.tracker_ = Unmark(@, p, n)], p, n, release, bad)

\* std::clamp<double>(release_fraction, 0, 1) times free_yet_backed, as a
\* size_t; a fraction is <<numerator, denominator>>.
ClampedTimes(free_yet_backed, release_fraction) ==
  IF release_fraction[1] <= 0 THEN 0
  ELSE IF release_fraction[1] >= release_fraction[2] THEN free_yet_backed
  ELSE (free_yet_backed * release_fraction[1]) \div release_fraction[2]

\* HugeRegion::Release: the for loop from the huge page i on; should_unback
\* are the huge pages marked so far and num_released their number.
RECURSIVE ReleaseMark(_, _, _, _, _)
ReleaseMark(hr, to_release, i, should_unback, num_released) ==
  IF i >= kNumHugePages THEN [should_unback |-> should_unback, released |-> num_released]
  ELSE IF hr.backed_[i] /\ hr.pages_used_[i] = 0
  THEN IF num_released + 1 >= to_release
       THEN [should_unback |-> should_unback \cup {i}, released |-> num_released + 1]
       ELSE ReleaseMark(hr, to_release, i + 1, should_unback \cup {i}, num_released + 1)
  ELSE IF num_released >= to_release
  THEN [should_unback |-> should_unback, released |-> num_released]
  ELSE ReleaseMark(hr, to_release, i + 1, should_unback, num_released)

\* Release after its for loop gave m.
ReleaseMarked(hr, m, bad) ==
  [hr |-> UnbackHugepages(hr, m.should_unback, bad, 0), released |-> m.released]

\* HugeRegion::Release(release_fraction)
HugeRegionRelease(hr, release_fraction, bad) ==
  ReleaseMarked(
    hr,
    ReleaseMark(hr, Max(ClampedTimes(free_backed(hr), release_fraction), 1), 0, {}, 0),
    bad)

\* ------------------------------------------------------------------------
\* HugeRegionSet
\* A set S is [set |-> [n_, use_huge_region_more_often_, list_ |-> the ids
\* of the regions of the list, the front first], regions |-> the HugeRegion
\* objects by id].  Region id lies at the pages location_start(id) ..
\* location_start(id) + RegionSize - 1.
\* ------------------------------------------------------------------------
Regions == 1 .. NumRegions
kDefault == "kDefault"
kUseForAllLargeAllocs == "kUseForAllLargeAllocs"
HugeRegionUsageOption == {kDefault, kUseForAllLargeAllocs}

\* location_.start().first_page() of region id
location_start(id) == (id - 1) * RegionSize

\* HugeRegion::contains(p) for region id
contains(id, p) == location_start(id) <= p /\ p < location_start(id) + RegionSize

\* HugeRegionSet::HugeRegionSet(use_huge_region_more_often)
NewHugeRegionSet(use_huge_region_more_often) ==
  [n_ |-> 0, use_huge_region_more_often_ |-> use_huge_region_more_often, list_ |-> <<>>]

\* HugeRegionSet::UseHugeRegionMoreOften()
UseHugeRegionMoreOften(set) == set.use_huge_region_more_often_ = kUseForAllLargeAllocs

\* TList::remove(r)
TListRemove(list, r) == SelectSeq(list, LAMBDA x : x # r)

\* The list with r put in after the first k elements.
TListInsert(list, k, r) == SubSeq(list, 1, k) \o <<r>> \o SubSeq(list, k + 1, Len(list))

\* The position of r in the list.
TListAt(list, r) == CHOOSE k \in 1 .. Len(list) : list[k] = r

\* Rise: the for loop, on the list rest that r is removed from, at the
\* element number k (0: list_.end() is reached and r is prepended).
RECURSIVE RiseLoop(_, _, _, _)
RiseLoop(rest, regions, r, k) ==
  IF k = 0 THEN <<r>> \o rest
  ELSE IF ~BetterToAllocThan(regions[r], regions[rest[k]]) THEN TListInsert(rest, k, r)
  ELSE RiseLoop(rest, regions, r, k - 1)

\* HugeRegionSet::Rise(r)
Rise(list, regions, r) ==
  IF TListAt(list, r) = 1 THEN list
  ELSE IF ~BetterToAllocThan(regions[r], regions[list[TListAt(list, r) - 1]]) THEN list
  ELSE RiseLoop(TListRemove(list, r), regions, r, TListAt(list, r) - 1)

\* Fall: the for loop, on the list rest that r is removed from, at the
\* element number k (beyond the last: r is appended).
RECURSIVE FallLoop(_, _, _, _)
FallLoop(rest, regions, r, k) ==
  IF k > Len(rest) THEN rest \o <<r>>
  ELSE IF ~BetterToAllocThan(regions[rest[k]], regions[r]) THEN TListInsert(rest, k - 1, r)
  ELSE FallLoop(rest, regions, r, k + 1)

\* HugeRegionSet::Fall(r)
Fall(list, regions, r) ==
  IF TListAt(list, r) = Len(list) THEN list
  ELSE IF ~BetterToAllocThan(regions[list[TListAt(list, r) + 1]], regions[r]) THEN list
  ELSE FallLoop(TListRemove(list, r), regions, r, TListAt(list, r))

\* Faulty variant of Fix: the region only moves forward.
FixRiseOnly(list, regions, r) == Rise(list, regions, r)

\* HugeRegionSet::Fix(r)
Fix(list, regions, r) == Fall(Rise(list, regions, r), regions, r)

\* AddToList: the for loop at the element number k.
RECURSIVE AddToListLoop(_, _, _, _)
AddToListLoop(list, regions, r, k) ==
  IF k > Len(list) THEN list \o <<r>>
  ELSE IF BetterToAllocThan(regions[r], regions[list[k]]) THEN TListInsert(list, k - 1, r)
  ELSE AddToListLoop(list, regions, r, k + 1)

\* HugeRegionSet::AddToList(r)
AddToList(list, regions, r) == AddToListLoop(list, regions, r, 1)

\* HugeRegionSet::Contribute(region)
HugeRegionSetContribute(S, r) ==
  [S EXCEPT !.set.n_ = @ + 1, !.set.list_ = AddToList(@, S.regions, r)]

\* HugeRegionSet::MaybeGet: region r gave g, which is found; Fix follows.
SetGetDone(S, r, g) ==
  [S |-> [S EXCEPT !.regions[r] = g.hr,
                   !.set.list_ = Fix(@, [S.regions EXCEPT ![r] = g.hr], r)],
   found |-> TRUE, page |-> location_start(r) + g.page, from_released |-> g.from_released]

\* HugeRegionSet::MaybeGet: the for loop at the element number k of list_.
RECURSIVE SetGetLoop(_, _, _)
SetGetTry(S, n, k, g) ==
  IF g.found THEN SetGetDone(S, S.set.list_[k], g) ELSE SetGetLoop(S, n, k + 1)

SetGetLoop(S, n, k) ==
  IF k > Len(S.set.list_)
  THEN [S |-> S, found |-> FALSE, page |-> 0, from_released |-> FALSE]
  ELSE SetGetTry(S, n, k, HugeRegionMaybeGet(S.regions[S.set.list_[k]], n))

\* HugeRegionSet::MaybeGet(n, page, from_released)
HugeRegionSetMaybeGet(S, n) == SetGetLoop(S, n, 1)

\* HugeRegionSet::MaybePut: region r contains p; Put gave hr, Fix follows.
SetPutDone(S, r, hr) ==
  [S |-> [S EXCEPT !.regions[r] = hr,
                   !.set.list_ = Fix(@, [S.regions EXCEPT ![r] = hr], r)],
   found |-> TRUE]

\* HugeRegionSet::MaybePut: the for loop at the element number k of list_;
\* unback_ fails on the groups that start at a huge page of bad.
RECURSIVE SetPutLoop(_, _, _, _, _, _)
SetPutLoop(S, p, n, release, bad, k) ==
  IF k > Len(S.set.list_) THEN [S |-> S, found |-> FALSE]
  ELSE IF contains(S.set.list_[k], p)
  THEN SetPutDone(S, S.set.list_[k],
                  HugeRegionPut(S.regions[S.set.list_[k]],
                                p - location_start(S.set.list_[k]), n, release, bad))
  ELSE SetPutLoop(S, p, n, release, bad, k + 1)

\* Faulty variant of HugeRegionSetMaybePut: the option is read the other way
\* round.
HugeRegionSetMaybePutInverted(S, p, n, bad) ==
  SetPutLoop(S, p, n, UseHugeRegionMoreOften(S.set), bad, 1)

\* HugeRegionSet::MaybePut(p, n)
HugeRegionSetMaybePut(S, p, n, bad) ==
  SetPutLoop(S, p, n, ~UseHugeRegionMoreOften(S.set), bad, 1)

\* HugeRegionSet::ReleasePages: the for loop at the element number k of
\* list_, r being what Release gave for that region; unback_ fails on the
\* groups of region id that start at a huge page of bad[id].
RECURSIVE SetReleaseLoop(_, _, _, _, _)
SetReleaseAdd(S, release_fraction, bad, k, num_released, r) ==
  SetReleaseLoop([S EXCEPT !.regions[S.set.list_[k]] = r.hr], release_fraction, bad,
                 k + 1, num_released + r.released * P)

SetReleaseLoop(S, release_fraction, bad, k, num_released) ==
  IF k > Len(S.set.list_) THEN [S |-> S, released |-> num_released]
  ELSE SetReleaseAdd(S, release_fraction, bad, k, num_released,
                     HugeRegionRelease(S.regions[S.set.list_[k]], release_fraction,
                                       bad[S.set.list_[k]]))

\* HugeRegionSet::ReleasePages(release_fraction)
HugeRegionSetReleasePages(S, release_fraction, bad) ==
  SetReleaseLoop(S, release_fraction, bad, 1, 0)

\* ------------------------------------------------------------------------
\* State
\* ------------------------------------------------------------------------
VARIABLES
  trackers,  \* the PageTracker objects, by tracker id
  filler,    \* the HugePageFiller
  owner,     \* who holds each tracker: "upstream" (not contributed, or handed
             \* back by Put), "filler", or "unbacking" (a Put on it has dropped
             \* pageheap_lock around unback_)
  spans,     \* per tracker, the <<page, n>> ranges handed out and not yet Put
  correctness,  \* skipped_subrelease_correctness_ of fillerstats_tracker_
  regions,      \* the HugeRegion objects, by region id
  region_set,   \* the HugeRegionSet
  region_spans,  \* the <<page, n>> ranges the regions handed out and not yet Put
  demand,       \* a FillerStatsTracker on its own: its time series of demand,
                \* and a record of what was reported to it
  indexing      \* a tracker in a filler constructed with some chunks_per_alloc:
                \* its number of allocations and the chunk IndexFor gives it

vars ==
  <<trackers, filler, owner, spans, correctness, regions, region_set, region_spans, demand,
    indexing>>

\* The variables of the regions and of their set.
region_vars == <<regions, region_set, region_spans>>

\* The variables of the trackers, the filler and its statistics.
filler_vars == <<trackers, filler, owner, spans, correctness>>

\* The filler and its trackers.  subrelease_stats_ and the time series of
\* fillerstats_tracker_ are not kept in the state of the filler (demand is a
\* time series the filler does not read).  The filler writes subrelease_stats_ and never
\* bases a decision on what an earlier call left there (ReleasePages sets
\* is_limit_hit before ReleaseCandidates reads it); the demand recorded in
\* fillerstats_tracker_ is read by ReleasePages only when skip-subrelease is
\* enabled.  The operators take their values on entry as W.s and W.h and
\* give their values on return.
World ==
  [f |-> filler, t |-> trackers, s |-> NewSubreleaseStats,
   h |-> NewFillerStatsTracker, k |-> <<>>]

\* The filler and its trackers with subrelease_stats_ = s.
WorldWith(s) == [World EXCEPT !.s = s]

\* The filler and its trackers with the time series h in
\* fillerstats_tracker_.
WorldAfter(h) == [World EXCEPT !.h = h]

\* The <<desired, release_partial_alloc_pages, hit_limit>> ReleasePages is
\* called with.
ReleaseInputs ==
  {<<d, FALSE, FALSE>> : d \in 0 .. MaxDesired} \cup {<<0, TRUE, FALSE>>, <<0, TRUE, TRUE>>}

\* The rankings that can make a difference: one when the filler holds fewer
\* than two trackers.
Ties ==
  IF Cardinality({id \in Trackers : owner[id] = "filler"}) >= 2 THEN Ranks
  ELSE {[id \in Trackers |-> id]}

\* Start offsets of the maximal runs of free and still backed pages.
RunStarts(pt) ==
  {p \in Pages : /\ p \notin pt.free_.bits /\ p \notin pt.released_by_page_
                 /\ (p = 0 \/ (p - 1) \in pt.free_.bits \/ (p - 1) \in pt.released_by_page_)}

\* The unback calls a ReleasePages call can make, by <<tracker, page offset>>.
UnbackSites == {x \in Trackers \X Pages :
                  owner[x[1]] = "filler" /\ x[2] \in RunStarts(trackers[x[1]])}

\* The sets of unback calls that fail during one ReleasePages call.
BadSets == {b \in SUBSET UnbackSites : Cardinality(b) <= MaxFailures}

\* What the Puts that wait for unback_ will add to unmapping_unaccounted_ at
\* most.
PendingUnaccounted ==
  SumOver({id \in Trackers : owner[id] = "unbacking"},
          [id \in Trackers |-> free_pages(trackers[id]) - released_pages(trackers[id])])

AllocsOptions == {kUnifiedAllocs, kSeparateAllocs}

Init ==
  /\ trackers = [id \in Trackers |-> NewPageTracker]
  /\ \E allocs_option \in AllocsOptions : filler = NewHugePageFiller(allocs_option)
  /\ owner = [id \in Trackers |-> "upstream"]
  /\ spans = [id \in Trackers |-> {}]
  /\ correctness = NewSkippedSubreleaseCorrectnessTracker
  /\ regions = [id \in Regions |-> NewHugeRegion]
  /\ region_set = NewHugeRegionSet(kDefault)
  /\ region_spans = {}
  /\ demand = NewDemand
  /\ indexing = NewIndexing(ChunksPerAlloc)

\* The state after Contribute, g being the first allocation of the tracker.
ContributeDone(id, n, g, W) ==
  /\ trackers' = W.t
  /\ filler' = W.f
  /\ spans' = [spans EXCEPT ![id] = {<<g.page, n>>}]
  /\ owner' = [owner EXCEPT ![id] = "filler"]
  /\ UNCHANGED <<correctness, region_vars, demand, indexing>>

\* Contribute of the tracker id whose first allocation g has been made.
ContributeWith(id, n, donated, density, g) ==
  ContributeDone(id, n, g, Contribute([World EXCEPT !.t[id] = g.pt], id, donated, density))

\* The upstream allocator makes a tracker, takes its first n pages (Get) and
\* contributes it (Contribute requires a non-empty, unreleased tracker, and
\* a sparse span for a donated one).
ContributeCall(id, n, donated, density) ==
  /\ owner[id] = "upstream"
  /\ \A other \in Trackers : owner[other] = "upstream" => id <= other
  /\ ~(TypeFor(filler, density = kDense) = kDense /\ donated)
  /\ ContributeWith(id, n, donated, density, PageTrackerGet(NewPageTracker, n))

\* The state after a TryGet that gave r.
TryGetDone(n, r) ==
  /\ trackers' = r.W.t
  /\ filler' = r.W.f
  /\ spans' = IF r.pt = NoTracker THEN spans
              ELSE [spans EXCEPT ![r.pt] = @ \cup {<<r.page, n>>}]
  /\ UNCHANGED <<owner, correctness, region_vars, demand, indexing>>

TryGetCall(n, density, tie) == TryGetDone(n, TryGet(World, n, density, tie))

\* The state after Put gave r: it has returned, or it has dropped
\* pageheap_lock and called unback_.
PutDone(id, p, n, r) ==
  /\ r.unlock =>
       filler.unmapping_unaccounted_ + PendingUnaccounted
         + (free_pages(r.W.t[id]) - released_pages(r.W.t[id])) <= MaxUnaccounted
  /\ trackers' = r.W.t
  /\ filler' = r.W.f
  /\ owner' = [owner EXCEPT ![id] = IF r.unlock THEN "unbacking"
                                    ELSE IF r.ret = id THEN "upstream"
                                    ELSE "filler"]
  /\ spans' = [spans EXCEPT ![id] = @ \ {<<p, n>>}]
  /\ UNCHANGED <<correctness, region_vars, demand, indexing>>

\* Put up to its return, or up to the point where it drops pageheap_lock.
PutCall(id, p, n) ==
  /\ owner[id] = "filler"
  /\ <<p, n>> \in spans[id]
  /\ PutDone(id, p, n, Put(World, id, p, n))

\* The state after the Put that dropped the lock has returned r.
PutUnbackDone(id, r) ==
  /\ trackers' = r.W.t
  /\ filler' = r.W.f
  /\ owner' = [owner EXCEPT ![id] = "upstream"]
  /\ UNCHANGED <<spans, correctness, region_vars, demand, indexing>>

\* unback_ returns (success or not) to a Put that dropped the lock; Put takes
\* the lock again and returns.
PutUnbackReturn(id, success) ==
  /\ owner[id] = "unbacking"
  /\ PutUnbackDone(id, PutAfterUnback(World, id, success))

\* The state after ReleasePages gave r.
ReleasePagesDone(r) ==
  /\ trackers' = r.W.t
  /\ filler' = r.W.f
  /\ UNCHANGED <<owner, spans, correctness, region_vars, demand, indexing>>

ReleasePagesCall(desired, release_partial_alloc_pages, hit_limit, bad, tie) ==
  ReleasePagesDone(
    ReleasePages(World, desired, NoIntervals, release_partial_alloc_pages, hit_limit,
                 bad, tie))

Next ==
  \/ \E id \in Trackers, n \in 1 .. (P - 1), donated \in BOOLEAN, density \in Density :
       ContributeCall(id, n, donated, density)
  \/ \E n \in 1 .. (P - 1), density \in Density, tie \in Ties :
       TryGetCall(n, density, tie)
  \/ \E id \in Trackers, p \in Pages, n \in 1 .. (P - 1) : PutCall(id, p, n)
  \/ \E id \in Trackers, success \in BOOLEAN : PutUnbackReturn(id, success)
  \/ \E in \in ReleaseInputs, bad \in BadSets, tie \in Ties :
       ReleasePagesCall(in[1], in[2], in[3], bad, tie)

Spec == Init /\ [][Next]_vars

\* Contribute, TryGet and Put only: nothing is ever released.
NextPut ==
  \/ \E id \in Trackers, n \in 1 .. (P - 1), donated \in BOOLEAN, density \in Density :
       ContributeCall(id, n, donated, density)
  \/ \E n \in 1 .. (P - 1), density \in Density, tie \in Ties :
       TryGetCall(n, density, tie)
  \/ \E id \in Trackers, p \in Pages, n \in 1 .. (P - 1) : PutCall(id, p, n)

SpecPut == Init /\ [][NextPut]_vars

\* ------------------------------------------------------------------------
\* PageTracker objects on their own: any sequence of Get, Put and ReleaseFree
\* on each tracker (the filler is not involved).
\* ------------------------------------------------------------------------
\* The state after Get(n) on tracker id gave g.
TrackerGetDone(id, n, g) ==
  /\ trackers' = [trackers EXCEPT ![id] = g.pt]
  /\ spans' = [spans EXCEPT ![id] = @ \cup {<<g.page, n>>}]
  /\ UNCHANGED <<filler, owner, correctness, region_vars, demand, indexing>>

\* PageTracker::Get(n) on tracker id; n pages must be free in a row.
TrackerGet(id, n) ==
  /\ n <= longest_free_range(trackers[id])
  /\ TrackerGetDone(id, n, PageTrackerGet(trackers[id], n))

\* PageTracker::Put(p, n) on tracker id, for a range Get handed out.
TrackerPut(id, p, n) ==
  /\ <<p, n>> \in spans[id]
  /\ trackers' = [trackers EXCEPT ![id] = PageTrackerPut(@, p, n)]
  /\ spans' = [spans EXCEPT ![id] = @ \ {<<p, n>>}]
  /\ UNCHANGED <<filler, owner, correctness, region_vars, demand, indexing>>

\* PageTracker::ReleaseFree(unback) on tracker id; unback fails on the runs
\* that start at the offsets of bad.
TrackerReleaseFree(id, bad) ==
  /\ trackers' = [trackers EXCEPT ![id] = ReleaseFree(@, bad).pt]
  /\ UNCHANGED <<filler, owner, spans, correctness, region_vars, demand, indexing>>

NextTracker ==
  \/ \E id \in Trackers, n \in 1 .. P : TrackerGet(id, n)
  \/ \E id \in Trackers, p \in Pages, n \in 1 .. P : TrackerPut(id, p, n)
  \/ \E id \in Trackers : \E bad \in SUBSET RunStarts(trackers[id]) :
       TrackerReleaseFree(id, bad)

SpecTracker == Init /\ [][NextTracker]_vars

\* ------------------------------------------------------------------------
\* The SkippedSubreleaseCorrectnessTracker on its own: any sequence of
\* ReportSkippedSubreleasePages and ReportUpdatedPeak calls and of clock
\* advances (the filler is not involved).
\* ------------------------------------------------------------------------
\* ReportSkippedSubreleasePages(skipped_pages, peak_pages,
\* expected_time_until_next_peak); FillerStatsTracker never passes 0 pages,
\* and the filler no peak of 0 pages.
ReportSkippedCall(skipped_pages, peak_pages, expected_time_until_next_peak) ==
  /\ correctness.total_skipped_.count < MaxDecisions
  /\ correctness' = CorrectnessReportSkippedSubreleasePages(
                      correctness, skipped_pages, peak_pages,
                      expected_time_until_next_peak)
  /\ UNCHANGED <<trackers, filler, owner, spans, region_vars, demand, indexing>>

\* ReportUpdatedPeak(current_peak)
ReportUpdatedPeakCall(current_peak) ==
  /\ correctness' = ReportUpdatedPeak(correctness, current_peak)
  /\ UNCHANGED <<trackers, filler, owner, spans, region_vars, demand, indexing>>

\* The clock advances by one epoch; after kEpochs epochs every entry of
\* tracker_ is out of the window, however many more elapse.
ClockAdvance ==
  /\ correctness.elapsed < kEpochs
  /\ correctness' = [correctness EXCEPT !.elapsed = @ + 1]
  /\ UNCHANGED <<trackers, filler, owner, spans, region_vars, demand, indexing>>

NextSkipped ==
  \/ \E skipped_pages \in 1 .. MaxSkippedPages, peak_pages \in 1 .. MaxPeak,
        expected_time_until_next_peak \in 0 .. (kEpochs * EpochLength) :
       ReportSkippedCall(skipped_pages, peak_pages, expected_time_until_next_peak)
  \/ \E current_peak \in 0 .. MaxPeak : ReportUpdatedPeakCall(current_peak)
  \/ ClockAdvance

\* The tracker as constructed, in a filler with one set of lists.
InitSkipped == Init /\ filler = NewHugePageFiller(kUnifiedAllocs)

SpecSkipped == InitSkipped /\ [][NextSkipped]_vars

\* ------------------------------------------------------------------------
\* HugeRegion objects on their own and in a HugeRegionSet (the filler is not
\* involved).
\* ------------------------------------------------------------------------
\* The regions as constructed, and a set constructed with either option.
InitRegions ==
  /\ trackers = [id \in Trackers |-> NewPageTracker]
  /\ filler = NewHugePageFiller(kUnifiedAllocs)
  /\ owner = [id \in Trackers |-> "upstream"]
  /\ spans = [id \in Trackers |-> {}]
  /\ correctness = NewSkippedSubreleaseCorrectnessTracker
  /\ regions = [id \in Regions |-> NewHugeRegion]
  /\ \E option \in HugeRegionUsageOption : region_set = NewHugeRegionSet(option)
  /\ region_spans = {}
  /\ demand = NewDemand
  /\ indexing = NewIndexing(ChunksPerAlloc)

\* The release fractions examined, as <<numerator, denominator>>: below 0,
\* 0, 1/2, 1 and above 1.
Fractions == {<<-1, 2>>, <<0, 1>>, <<1, 2>>, <<1, 1>>, <<3, 2>>}

\* The sets of huge pages at which a failing unback_ call of one Put or one
\* Release starts.
BadGroups == {b \in SUBSET HugePages : Cardinality(b) <= MaxFailures}

\* The same for one ReleasePages call, by region.
BadGroupsByRegion ==
  {b \in [Regions -> BadGroups] :
     SumOver(Regions, [id \in Regions |-> Cardinality(b[id])]) <= MaxFailures}

\* The state after MaybeGet(n) on region id gave g.
HugeRegionGetReturn(id, n, g) ==
  /\ regions' = [regions EXCEPT ![id] = g.hr]
  /\ region_spans' = IF g.found THEN region_spans \cup {<<location_start(id) + g.page, n>>}
                     ELSE region_spans
  /\ UNCHANGED <<region_set, filler_vars, demand, indexing>>

\* HugeRegion::MaybeGet(n, p, from_released) on region id
HugeRegionMaybeGetCall(id, n) ==
  HugeRegionGetReturn(id, n, HugeRegionMaybeGet(regions[id], n))

\* HugeRegion::Put(p, n, release) on region id, for a range MaybeGet handed
\* out.
HugeRegionPutCall(id, p, n, release, bad) ==
  /\ contains(id, p)
  /\ <<p, n>> \in region_spans
  /\ regions' = [regions EXCEPT
                   ![id] = HugeRegionPut(@, p - location_start(id), n, release, bad)]
  /\ regions'[id].total_unbacked_ <= MaxTotalUnbacked
  /\ region_spans' = region_spans \ {<<p, n>>}
  /\ UNCHANGED <<region_set, filler_vars, demand, indexing>>

\* HugeRegion::Release(release_fraction) on region id
HugeRegionReleaseCall(id, release_fraction, bad) ==
  /\ regions' = [regions EXCEPT ![id] = HugeRegionRelease(@, release_fraction, bad).hr]
  /\ regions'[id].total_unbacked_ <= MaxTotalUnbacked
  /\ UNCHANGED <<region_set, region_spans, filler_vars, demand, indexing>>

\* The lengths the regions are asked for: allocations that nearly fill a
\* huge page or do not fit in one.
RegionRequests == (P - 1) .. RegionSize


\* Any sequence of MaybeGet, Put and Release on the first region.
NextRegion ==
  \/ \E n \in RegionRequests : HugeRegionMaybeGetCall(1, n)
  \/ \E in \in region_spans, release \in BOOLEAN, bad \in BadGroups :
       HugeRegionPutCall(1, in[1], in[2], release, bad)
  \/ \E release_fraction \in Fractions, bad \in BadGroups :
       HugeRegionReleaseCall(1, release_fraction, bad)

SpecRegion == InitRegions /\ [][NextRegion]_vars

\* The lengths the set is asked for: allocations too large for a single huge
\* page.
SetRequests == (P + 1) .. RegionSize

\* The set and its regions.
RegionWorld == [set |-> region_set, regions |-> regions]

\* The regions the set holds.
Contributed == {region_set.list_[k] : k \in 1 .. Len(region_set.list_)}

\* HugeRegionSet::Contribute(region): the upstream allocator makes a region
\* and contributes it.
RegionSetContributeCall(id) ==
  /\ id \notin Contributed
  /\ \A other \in Regions \ Contributed : id <= other
  /\ region_set' = HugeRegionSetContribute(RegionWorld, id).set
  /\ UNCHANGED <<regions, region_spans, filler_vars, demand, indexing>>

\* The state after MaybeGet(n) on the set gave g.
RegionSetGetReturn(n, g) ==
  /\ region_set' = g.S.set
  /\ regions' = g.S.regions
  /\ region_spans' = IF g.found THEN region_spans \cup {<<g.page, n>>} ELSE region_spans
  /\ UNCHANGED <<filler_vars, demand, indexing>>

\* HugeRegionSet::MaybeGet(n, page, from_released)
RegionSetMaybeGetCall(n) == RegionSetGetReturn(n, HugeRegionSetMaybeGet(RegionWorld, n))

\* The state after MaybePut(p, n) gave r.
RegionSetPutReturn(p, n, r) ==
  /\ region_set' = r.S.set
  /\ regions' = r.S.regions
  /\ \A id \in Regions : regions'[id].total_unbacked_ <= MaxTotalUnbacked
  /\ region_spans' = IF r.found THEN region_spans \ {<<p, n>>} ELSE region_spans
  /\ UNCHANGED <<filler_vars, demand, indexing>>

\* The <<page, n>> MaybePut is called with: the ranges MaybeGet handed out,
\* and a range of each region the set does not hold.
PutInputs ==
  region_spans \cup {<<location_start(id) + 1, P + 1>> : id \in Regions \ Contributed}

\* HugeRegionSet::MaybePut(p, n)
RegionSetMaybePutCall(p, n, bad) ==
  RegionSetPutReturn(p, n, HugeRegionSetMaybePut(RegionWorld, p, n, bad))

\* The state after ReleasePages gave r.
RegionSetReleaseReturn(r) ==
  /\ region_set' = r.S.set
  /\ regions' = r.S.regions
  /\ \A id \in Regions : regions'[id].total_unbacked_ <= MaxTotalUnbacked
  /\ UNCHANGED <<region_spans, filler_vars, demand, indexing>>

\* HugeRegionSet::ReleasePages(release_fraction)
RegionSetReleasePagesCall(release_fraction, bad) ==
  RegionSetReleaseReturn(HugeRegionSetReleasePages(RegionWorld, release_fraction, bad))

NextRegionSet ==
  \/ \E id \in Regions : RegionSetContributeCall(id)
  \/ \E n \in SetRequests : RegionSetMaybeGetCall(n)
  \/ \E in \in PutInputs, bad \in BadGroups : RegionSetMaybePutCall(in[1], in[2], bad)
  \/ \E release_fraction \in Fractions, bad \in BadGroupsByRegion :
       RegionSetReleasePagesCall(release_fraction, bad)

SpecRegionSet == InitRegions /\ [][NextRegionSet]_vars

\* The filler and the regions in one heap.  They share no state: every
\* action of the one leaves the variables of the other unchanged, and no
\* guard or result of the one reads them; a behaviour of both is an
\* interleaving of a behaviour of each.  So the filler acts while the
\* regions are as constructed, and the first region while the filler and
\* the trackers are as constructed.
FillerIdle ==
  /\ trackers = [id \in Trackers |-> NewPageTracker]
  /\ \A id \in Trackers : owner[id] = "upstream"
  /\ \E allocs_option \in AllocsOptions : filler = NewHugePageFiller(allocs_option)

RegionsIdle ==
  /\ regions = [id \in Regions |-> NewHugeRegion]
  /\ region_spans = {}

\* The Put of the first tracker waits for unback_ with pageheap_lock
\* dropped, one of its pages being released, while the filler holds the
\* last, unbroken and not donated, with its first page in use.
FillerUnbacking ==
  /\ owner[1] = "unbacking"
  /\ owner[NumTrackers] = "filler"
  /\ released_pages(trackers[1]) = 1
  /\ trackers[NumTrackers].free_.bits = {0}
  /\ released_pages(trackers[NumTrackers]) = 0
  /\ trackers[NumTrackers].unbroken_
  /\ ~trackers[NumTrackers].donated_
  /\ filler.unmapping_unaccounted_ = 0
  /\ filler.allocs_for_sparse_and_dense_spans_ = kUnifiedAllocs

NextUnback ==
  \/ RegionsIdle /\ Next
  \/ (FillerIdle \/ FillerUnbacking) /\ NextRegion

SpecUnback == Init /\ [][NextUnback]_vars

\* ------------------------------------------------------------------------
\* A filler with more trackers than ReleasePages takes candidates at a time:
\* trackers are contributed and pages released, and nothing is allocated
\* from the filler or put back (so no tracker is partially released).
\* ------------------------------------------------------------------------
\* The trackers beyond kCandidatesForReleasingMemory.
ExtraTrackers == 1
SelectTrackers == 1 .. (kCandidatesForReleasingMemory + ExtraTrackers)

\* The orders in which the trackers of one bin are met.
SelectRanks ==
  {r \in [SelectTrackers -> SelectTrackers] :
     \A a, b \in SelectTrackers : a # b => r[a] # r[b]}

InitSelect ==
  /\ trackers = [id \in SelectTrackers |-> NewPageTracker]
  /\ \E allocs_option \in AllocsOptions : filler = NewHugePageFiller(allocs_option)
  /\ owner = [id \in SelectTrackers |-> "upstream"]
  /\ spans = [id \in SelectTrackers |-> {}]
  /\ correctness = NewSkippedSubreleaseCorrectnessTracker
  /\ regions = [id \in Regions |-> NewHugeRegion]
  /\ region_set = NewHugeRegionSet(kDefault)
  /\ region_spans = {}
  /\ demand = NewDemand
  /\ indexing = NewIndexing(ChunksPerAlloc)

\* The upstream allocator makes a tracker, takes its first n pages and
\* contributes it.
SelectContributeCall(id, n, donated, density) ==
  /\ owner[id] = "upstream"
  /\ \A other \in SelectTrackers : owner[other] = "upstream" => id <= other
  /\ ~(TypeFor(filler, density = kDense) = kDense /\ donated)
  /\ ContributeWith(id, n, donated, density, PageTrackerGet(NewPageTracker, n))

\* ReleasePages(desired, no intervals, false, false), every unback
\* succeeding.
SelectReleasePagesCall(desired, tie) == ReleasePagesCall(desired, FALSE, FALSE, {}, tie)

NextSelect ==
  \/ \E id \in SelectTrackers, n \in 1 .. (P - 1), donated \in BOOLEAN, density \in Density :
       SelectContributeCall(id, n, donated, density)
  \/ \E desired \in {1, P}, tie \in SelectRanks : SelectReleasePagesCall(desired, tie)

SpecSelect == InitSelect /\ [][NextSelect]_vars

\* ------------------------------------------------------------------------
\* A FillerStatsTracker on its own: any sequence of Report calls and of
\* clock advances (the filler is not involved).
\* ------------------------------------------------------------------------
\* The largest demand reported, in pages.
MaxDemand == 2

\* FillerStatsTracker::Report(stats), num_pages being stats.num_pages.
DemandReportCall(num_pages) ==
  /\ demand' = [h |-> TimeSeriesReport(demand.h, num_pages),
                samples |-> [demand.samples EXCEPT ![0] = @ \cup {num_pages}],
                all_time_max |-> Max(demand.all_time_max, num_pages)]
  /\ UNCHANGED <<filler_vars, region_vars, indexing>>

\* The clock advances by one epoch; the series takes note at the next
\* Report (after kEpochs epochs every entry is out of the window, however
\* many more elapse).
DemandClockAdvance ==
  /\ demand.h.elapsed < kEpochs
  /\ demand' = [demand EXCEPT
                  !.h.elapsed = @ + 1,
                  !.samples = [age \in 0 .. (kEpochs - 1) |->
                                 IF age = 0 THEN {} ELSE demand.samples[age - 1]]]
  /\ UNCHANGED <<filler_vars, region_vars, indexing>>

NextDemand ==
  \/ \E num_pages \in 0 .. MaxDemand : DemandReportCall(num_pages)
  \/ DemandClockAdvance

SpecDemand == Init /\ [][NextDemand]_vars

\* ------------------------------------------------------------------------
\* IndexFor on its own: a filler constructed with any chunks_per_alloc, and
\* a tracker that gains and loses allocations.
\* ------------------------------------------------------------------------
\* kChunks, the largest chunks_per_alloc.
kChunks == 16

\* The largest number of allocations of the tracker (at most
\* kPagesPerHugePage, which is 256 or 512 in the program).
MaxAllocs == 32

InitIndexing ==
  /\ trackers = [id \in Trackers |-> NewPageTracker]
  /\ filler = NewHugePageFiller(kUnifiedAllocs)
  /\ owner = [id \in Trackers |-> "upstream"]
  /\ spans = [id \in Trackers |-> {}]
  /\ correctness = NewSkippedSubreleaseCorrectnessTracker
  /\ regions = [id \in Regions |-> NewHugeRegion]
  /\ region_set = NewHugeRegionSet(kDefault)
  /\ region_spans = {}
  /\ demand = NewDemand
  /\ \E chunks_per_alloc \in 1 .. kChunks : indexing = NewIndexing(chunks_per_alloc)

\* The tracker gets (by = 1) or loses (by = -1) an allocation, and IndexFor
\* is asked for its chunk.
IndexForCall(by) ==
  /\ indexing.nallocs + by \in 1 .. MaxAllocs
  /\ indexing' = [indexing EXCEPT
                    !.nallocs = @ + by,
                    !.index = IndexForChunks(indexing.chunks_per_alloc_, indexing.nallocs + by)]
  /\ UNCHANGED <<filler_vars, region_vars, demand>>

NextIndexing == \E by \in {-1, 1} : IndexForCall(by)

SpecIndexing == InitIndexing /\ [][NextIndexing]_vars

\* ------------------------------------------------------------------------
\* Properties
\* ------------------------------------------------------------------------
\* The trackers the filler holds.
Held == {id \in Trackers : owner[id] = "filler"}

\* The seven tracker lists of the filler.
AllLists ==
  <<filler.regular_alloc_[kSparse], filler.regular_alloc_[kDense],
    filler.donated_alloc_,
    filler.regular_alloc_partial_released_[kSparse],
    filler.regular_alloc_partial_released_[kDense],
    filler.regular_alloc_released_[kSparse],
    filler.regular_alloc_released_[kDense]>>

\* Number of list entries, over all lists and bins, that hold tracker id.
Occurrences(id) ==
  SumOver(DOMAIN AllLists,
          [k \in DOMAIN AllLists |-> Cardinality({x \in AllLists[k] : x[2] = id})])

\* Sum of used_pages over the trackers of S.
UsedSum(S) == SumOver(S, [id \in Trackers |-> used_pages(trackers[id])])

\* The trackers on lists that have n free pages in a row.
Fit(lists, n) == {id \in ListMembers(lists) : longest_free_range(trackers[id]) >= n}

\* The requests TryGet is examined with in each state.
Requests == (1 .. (P - 1)) \X Density \X Ranks

\* C1: a tracker the filler holds (contributed, not yet handed back) is on
\* exactly one bin of exactly one of the seven lists; any other tracker
\* (never contributed, handed back by Put, or taken off its list by a Put
\* that is about to hand it back) is on no list.
C1_ExactlyOneList ==
  \A id \in Trackers : Occurrences(id) = (IF owner[id] = "filler" THEN 1 ELSE 0)

\* A tracker has been contributed dense and handed back, while the other is
\* held on a released or partially released list.
C1_Witness ==
  \E a, b \in Trackers :
    /\ owner[a] = "upstream" /\ trackers[a].has_dense_spans_
    /\ owner[b] = "filler" /\ released(trackers[b])

\* C2: for each density d, pages_allocated_[d] is the sum of used_pages over
\* the held trackers filed under d, and n_used_released_[d] and
\* n_used_partial_released_[d] are the sums of used_pages over the trackers
\* on regular_alloc_released_[d] and regular_alloc_partial_released_[d]; so
\* no counter is ever negative.
C2_Counters ==
  \A d \in Density :
    /\ filler.pages_allocated_[d] =
         UsedSum({id \in Held : (IF trackers[id].has_dense_spans_ THEN kDense ELSE kSparse) = d})
    /\ filler.n_used_released_[d] = UsedSum(ListMembers(filler.regular_alloc_released_[d]))
    /\ filler.n_used_partial_released_[d] =
         UsedSum(ListMembers(filler.regular_alloc_partial_released_[d]))

\* Used pages are counted on a released and on a partially released list at
\* the same time, one of the trackers being dense.
C2_Witness ==
  /\ \E d \in Density : filler.n_used_released_[d] > 0
  /\ \E d \in Density : filler.n_used_partial_released_[d] > 0
  /\ filler.pages_allocated_[kDense] > 0

\* C3: unmapped_ is the sum of released_pages over the trackers the filler
\* holds.
C3_Unmapped ==
  filler.unmapped_ = SumOver(Held, [id \in Trackers |-> released_pages(trackers[id])])

\* Both trackers are held with released pages, one of them with a free page
\* that is still backed.
C3_Witness ==
  /\ \A id \in Trackers : owner[id] = "filler" /\ released_pages(trackers[id]) > 0
  /\ \E id \in Trackers : free_pages(trackers[id]) > released_pages(trackers[id])

\* C4: a tracker on regular_alloc_[d] has no released page; one on
\* regular_alloc_released_[d] has free_pages <= released_pages; one on
\* regular_alloc_partial_released_[d] has free_pages > released_pages > 0.
C4_ListClasses ==
  \A d \in Density :
    /\ \A id \in ListMembers(filler.regular_alloc_[d]) : released_pages(trackers[id]) = 0
    /\ \A id \in ListMembers(filler.regular_alloc_released_[d]) :
         free_pages(trackers[id]) <= released_pages(trackers[id])
    /\ \A id \in ListMembers(filler.regular_alloc_partial_released_[d]) :
         /\ free_pages(trackers[id]) > released_pages(trackers[id])
         /\ released_pages(trackers[id]) > 0

\* One tracker is on a released list and the other on a partially released
\* list.
C4_Witness ==
  /\ \E d \in Density : filler.regular_alloc_released_[d] # {}
  /\ \E d \in Density : filler.regular_alloc_partial_released_[d] # {}

\* C5: in a PageTracker no page is both used and flagged released,
\* released_pages <= free_pages, and released_count_ is the number of bits
\* set in released_by_page_.
C5_TrackerBits ==
  \A id \in Trackers :
    /\ trackers[id].released_by_page_ \cap trackers[id].free_.bits = {}
    /\ released_pages(trackers[id]) <= free_pages(trackers[id])
    /\ trackers[id].released_count_ = Cardinality(trackers[id].released_by_page_)

\* A tracker has a used page, a released page and a free page that is backed
\* (a page was allocated on released memory and put back).
C5_Witness ==
  \E id \in Trackers :
    /\ used_pages(trackers[id]) > 0
    /\ released_pages(trackers[id]) > 0
    /\ free_pages(trackers[id]) > released_pages(trackers[id])
    /\ ~trackers[id].unbroken_

\* The members of the list TryGet(n) with density type d has to take its
\* tracker from: the first of regular_alloc_[d], donated_alloc_ (kSparse
\* only), regular_alloc_partial_released_[d], regular_alloc_released_[d]
\* that has a tracker with n free pages in a row.
SearchGroup(n, d) ==
  IF Fit(filler.regular_alloc_[d], n) # {} THEN ListMembers(filler.regular_alloc_[d])
  ELSE IF d = kSparse /\ Fit(filler.donated_alloc_, n) # {}
  THEN ListMembers(filler.donated_alloc_)
  ELSE IF Fit(filler.regular_alloc_partial_released_[d], n) # {}
  THEN ListMembers(filler.regular_alloc_partial_released_[d])
  ELSE IF Fit(filler.regular_alloc_released_[d], n) # {}
  THEN ListMembers(filler.regular_alloc_released_[d])
  ELSE {}

\* r, the result of TryGet(n) with density type d, follows the search order.
SearchOrderHolds(n, d, r) ==
  /\ SearchGroup(n, d) # {} => r.pt \in SearchGroup(n, d)
  /\ (d = kDense /\ r.pt # NoTracker) => ~trackers[r.pt].donated_

\* C6: in every state TryGet(n) with density d takes its tracker from
\* regular_alloc_[d] if a tracker there fits; else, for d = kSparse only,
\* from donated_alloc_; else from regular_alloc_partial_released_[d]; else
\* from regular_alloc_released_[d]; a kDense request never gets a donated
\* tracker.
C6_SearchOrder ==
  \A q \in Requests :
    SearchOrderHolds(q[1], TypeFor(filler, q[2] = kDense),
                     TryGet(World, q[1], q[2], q[3]))

\* No regular tracker fits, a donated one and a released one do, and TryGet
\* takes the donated one.
C6_Witness ==
  \E q \in Requests :
    /\ Fit(filler.regular_alloc_[kSparse], q[1]) = {}
    /\ Fit(filler.donated_alloc_, q[1]) # {}
    /\ Fit(filler.regular_alloc_released_[kSparse], q[1]) # {}
    /\ TryGet(World, q[1], kSparse, q[3]).pt \in ListMembers(filler.donated_alloc_)

\* The trackers that are on a list together with tracker id.
Peers(id) ==
  UNION {ListMembers(AllLists[k]) : k \in {j \in DOMAIN AllLists : id \in ListMembers(AllLists[j])}}

\* Least e with 2^e >= k.
RECURSIVE CeilLog2(_)
CeilLog2(k) == IF k <= 1 THEN 0 ELSE 1 + CeilLog2((k + 1) \div 2)

\* The logarithmically quantized number of allocations of a tracker, as far
\* as chunks_per_alloc_ chunks tell it apart.
QuantizedAllocs(pt) == Min(CeilLog2(nallocs(pt)), ChunksPerAlloc - 1)

\* r, the result of TryGet(n), is a best fit within its list group.
BestFitHolds(n, r) ==
  r.pt # NoTracker =>
    /\ longest_free_range(trackers[r.pt]) >= n
    /\ \A o \in Peers(r.pt) :
         longest_free_range(trackers[o]) >= n =>
           /\ longest_free_range(trackers[r.pt]) <= longest_free_range(trackers[o])
           /\ longest_free_range(trackers[r.pt]) = longest_free_range(trackers[o]) =>
                QuantizedAllocs(trackers[r.pt]) >= QuantizedAllocs(trackers[o])

Eligible(n, d) ==
  Fit(filler.regular_alloc_[d], n) \cup Fit(filler.regular_alloc_partial_released_[d], n)
    \cup Fit(filler.regular_alloc_released_[d], n)
    \cup (IF d = kSparse THEN Fit(filler.donated_alloc_, n) ELSE {})

\* r, the result of TryGet(n) with density type d, is not-found exactly when
\* no tracker is eligible, and then nothing has changed.
NotFoundHolds(n, d, r) ==
  /\ r.pt = NoTracker <=> Eligible(n, d) = {}
  /\ r.pt = NoTracker => r.W = World

\* C8: in every state TryGet(n) with density d returns no tracker if and
\* only if no tracker on regular_alloc_[d],
\* regular_alloc_partial_released_[d], regular_alloc_released_[d] or (for
\* kSparse) donated_alloc_ has longest_free_range >= n, and then it leaves
\* the filler and the trackers as they were.
C8_NotFound ==
  \A q \in Requests :
    NotFoundHolds(q[1], TypeFor(filler, q[2] = kDense), TryGet(World, q[1], q[2], q[3]))

\* A kDense request finds nothing although a donated tracker and a released
\* kSparse tracker would fit.
C8_Witness ==
  \E q \in Requests :
    /\ TypeFor(filler, q[2] = kDense) = kDense
    /\ Fit(filler.donated_alloc_, q[1]) # {}
    /\ Fit(filler.regular_alloc_released_[kSparse], q[1]) # {}
    /\ TryGet(World, q[1], q[2], q[3]).pt = NoTracker

\* r, the result of Put on tracker id, returns the tracker exactly when the
\* tracker is left entirely free.
PutReturnHolds(id, r) ==
  /\ r.ret = id <=> empty(r.W.t[id])
  /\ r.ret # id => r.ret = NoTracker

\* Every allocation has been put back.
AllPutBack == \A id \in Trackers : spans[id] = {}

\* C9: with Contribute, TryGet and Put only, every Put returns the tracker
\* exactly when it leaves it entirely free and no tracker otherwise; and
\* when every allocation has been put back, pages_allocated_ is 0, unmapped_
\* is 0 (no page was ever released), every tracker is entirely free, handed
\* back and on no list, and size_ is 0.
C9_PutBack ==
  /\ \A id \in Held : \A sp \in spans[id] :
       PutReturnHolds(id, Put(World, id, sp[1], sp[2]))
  /\ AllPutBack =>
       /\ \A d \in Density : filler.pages_allocated_[d] = 0
       /\ filler.unmapped_ = 0
       /\ filler.size_ = 0
       /\ \A id \in Trackers :
            owner[id] = "upstream" /\ empty(trackers[id]) /\ Occurrences(id) = 0

\* Everything has been put back after a dense tracker and a donated tracker
\* were contributed, used and handed back.
C9_Witness ==
  /\ AllPutBack
  /\ \E a, b \in Trackers : trackers[a].has_dense_spans_ /\ trackers[b].donated_

\* Get(n) on pt and Put of the same range: the tracker after the two calls.
GetThenPut(pt, n, g) == PageTrackerPut(g.pt, g.page, n)

\* The original reading, for Get(n) giving g on pt: released_pages is back to
\* its value before the Get.
ReleasedAgainHolds(pt, n, g) ==
  released_pages(GetThenPut(pt, n, g)) = released_pages(pt)

StaysBackedHolds(pt, n, g) ==
  /\ GetThenPut(pt, n, g).released_by_page_ = pt.released_by_page_ \ Range(g.page, n)
  /\ GetThenPut(pt, n, g).released_by_page_ = g.pt.released_by_page_
  /\ released_pages(GetThenPut(pt, n, g)) = released_pages(pt) - g.previously_unbacked
  /\ g.previously_unbacked = Cardinality(pt.released_by_page_ \cap Range(g.page, n))
  /\ GetThenPut(pt, n, g).free_.bits = pt.free_.bits

\* u, the result of putting back the range that TryGet just took from
\* tracker id, k pages of which were released before: the tracker stays in
\* the filler with k released pages fewer than before the TryGet, on a
\* partially released list if a released page is left and on a regular list
\* otherwise, and on no fully released list.
PutBackHolds(id, k, u) ==
  /\ u.ret = NoTracker /\ ~u.unlock
  /\ released_pages(u.W.t[id]) = released_pages(trackers[id]) - k
  /\ \A d \in Density :
       /\ id \notin ListMembers(u.W.f.regular_alloc_released_[d])
       /\ id \in ListMembers(u.W.f.regular_alloc_partial_released_[d]) =>
            released_pages(u.W.t[id]) > 0
       /\ id \in ListMembers(u.W.f.regular_alloc_[d]) => released_pages(u.W.t[id]) = 0

\* r, the result of TryGet(n): if the allocation landed on released pages,
\* putting it back leaves them backed.
TryGetThenPutHolds(n, r) ==
  (r.pt # NoTracker /\ r.W.f.unmapped_ < filler.unmapped_) =>
    PutBackHolds(r.pt, filler.unmapped_ - r.W.f.unmapped_, Put(r.W, r.pt, r.page, n))

LandsOnReleased(n, r) ==
  /\ r.pt # NoTracker
  /\ r.W.f.unmapped_ < filler.unmapped_
  /\ \E d \in Density : r.pt \in ListMembers(filler.regular_alloc_released_[d])
  /\ released_pages(GetThenPut(trackers[r.pt], n, PageTrackerGet(trackers[r.pt], n)))
       < released_pages(trackers[r.pt])

PutUnbackHolds(id, u) ==
  /\ u.unlock = (/\ empty(u.W.t[id])
                 /\ 0 < released_pages(trackers[id])
                 /\ released_pages(trackers[id]) < P)
  /\ u.unlock =>
       /\ u.ret = NoTracker
       /\ free_pages(u.W.t[id]) = P
       /\ released_pages(u.W.t[id]) = released_pages(trackers[id])
       /\ PutAfterUnback(u.W, id, TRUE).W.f.unmapping_unaccounted_ =
            u.W.f.unmapping_unaccounted_ + (P - released_pages(trackers[id]))
       /\ PutAfterUnback(u.W, id, FALSE).W.f.unmapping_unaccounted_ =
            u.W.f.unmapping_unaccounted_
       /\ PutAfterUnback(u.W, id, TRUE).ret = id
       /\ PutAfterUnback(u.W, id, FALSE).ret = id
  /\ (empty(u.W.t[id]) /\ ~u.unlock) => u.ret = id

\* C11: when Put frees the last allocation of a partially released tracker
\* (0 < released_pages < free_pages = P) it drops pageheap_lock and calls
\* unback_ once, on the whole huge page, and on success adds free_pages -
\* released_pages to unmapping_unaccounted_; an emptied tracker with
\* released_pages = 0 or released_pages = P is handed back without an unback_
\* call.  A tracker whose Put waits for unback_ is entirely free, partially
\* released and on no list.
C11_PutUnback ==
  /\ \A id \in Held : \A sp \in spans[id] :
       PutUnbackHolds(id, Put(World, id, sp[1], sp[2]))
  /\ \A id \in Trackers :
       owner[id] = "unbacking" =>
         /\ empty(trackers[id])
         /\ 0 < released_pages(trackers[id]) /\ released_pages(trackers[id]) < P
         /\ Occurrences(id) = 0

\* A Put that frees the last allocation of a partially released tracker has
\* dropped pageheap_lock, and another tracker's last allocation can be freed
\* with no released page.
C11_Witness ==
  /\ \E id \in Trackers : owner[id] = "unbacking"
  /\ \E id \in Held : \E sp \in spans[id] :
       /\ Put(World, id, sp[1], sp[2]).ret = id
       /\ released_pages(trackers[id]) = 0

\* The maximal run of free and still backed pages of pt that starts at s.
RunPages(pt, s) ==
  {q \in Pages : q >= s /\ \A k \in s .. q :
                              k \notin pt.free_.bits /\ k \notin pt.released_by_page_}

\* The pages of the runs of pt that start at an offset of S.
RunsPages(pt, S) == UNION {RunPages(pt, s) : s \in S}

\* r, the result of ReleaseFree on pt when unback fails exactly on the runs
\* that start at the offsets of bad: the pages of those runs stay backed and
\* are counted nowhere, the other runs are marked released and counted, and
\* unbroken_ is cleared only if some unback call succeeded.
ReleaseFreeFailureHolds(pt, bad, r) ==
  /\ r.pt.released_by_page_ =
       pt.released_by_page_ \cup RunsPages(pt, RunStarts(pt) \ bad)
  /\ RunsPages(pt, bad) \cap r.pt.released_by_page_ = {}
  /\ r.count = Cardinality(RunsPages(pt, RunStarts(pt) \ bad))
  /\ released_pages(r.pt) = released_pages(pt) + r.count
  /\ r.pt.unbroken_ = (pt.unbroken_ /\ RunStarts(pt) \subseteq bad)
  /\ r.pt.free_ = pt.free_

\* C12: if an unback call made by ReleaseFree returns false, the pages of
\* that run stay backed (released bits clear), are not counted in the return
\* value or in released_pages, and that call does not clear unbroken_; the
\* runs of the same ReleaseFree whose unback succeeds are marked released
\* and counted.
C12_UnbackFailure ==
  \A id \in Trackers : \A bad \in SUBSET RunStarts(trackers[id]) :
    ReleaseFreeFailureHolds(trackers[id], bad, ReleaseFree(trackers[id], bad))

\* An unbroken tracker has two runs of free backed pages; ReleaseFree fails
\* on one and succeeds on the other, and a ReleaseFree whose calls all fail
\* leaves it unbroken.
C12_Witness ==
  \E id \in Trackers : \E bad \in SUBSET RunStarts(trackers[id]) :
    /\ trackers[id].unbroken_
    /\ bad # {} /\ RunStarts(trackers[id]) \ bad # {}
    /\ ReleaseFree(trackers[id], bad).count > 0
    /\ ~ReleaseFree(trackers[id], bad).pt.unbroken_
    /\ ReleaseFree(trackers[id], RunStarts(trackers[id])).pt.unbroken_
    /\ ReleaseFree(trackers[id], RunStarts(trackers[id])).count = 0

\* The <<desired, release_partial_alloc_pages, hit_limit>> ReleasePages is
\* examined with in each state.
ReleaseProbes == (0 .. MaxDesired) \X BOOLEAN \X BOOLEAN

\* Values of subrelease_stats_ on entry to ReleasePages: as constructed, and
\* with every counter at one.
StatsSamples ==
  {NewSubreleaseStats,
   [total_pages_subreleased |-> 1,
    total_partial_alloc_pages_subreleased |-> 1,
    num_pages_subreleased |-> 1,
    num_partial_alloc_pages_subreleased |-> 1,
    total_hugepages_broken |-> 1,
    num_hugepages_broken |-> 1,
    is_limit_hit |-> FALSE,
    total_pages_subreleased_due_to_limit |-> 1,
    total_hugepages_broken_due_to_limit |-> 1]}

\* r, the result of a ReleasePages call entered with subrelease_stats_ = s:
\* nothing but the drained unmapping_unaccounted_ is reported, and unmapped_
\* and the statistics are as on entry but for the drained amount (the flag
\* is_limit_hit aside).
NothingReleasedHolds(s, r) ==
  /\ r.total_released = filler.unmapping_unaccounted_
  /\ r.W.f.unmapped_ = filler.unmapped_
  /\ r.W.s = [s EXCEPT !.num_pages_subreleased = @ + filler.unmapping_unaccounted_,
                       !.is_limit_hit = r.W.s.is_limit_hit]

\* C13: if every unback call made during ReleasePages returns false, the
\* call returns only the drained unmapping_unaccounted_ and leaves unmapped_
\* and the subrelease statistics unchanged apart from that amount;
\* num_hugepages_broken and the due-to-limit totals do not increase.
C13_FailedUnbackStats ==
  \A in \in ReleaseProbes : \A tie \in Ties : \A s \in StatsSamples :
    NothingReleasedHolds(
      s, ReleasePages(WorldWith(s), in[1], NoIntervals, in[2], in[3], UnbackSites, tie))

\* r, the result of ReleaseFree on pt with an unback that succeeds: it
\* returns the number of pages that were free and not released, leaves
\* every free page released, and touches nothing else.
ReleaseFreeAllHolds(pt, r) ==
  /\ r.count = free_pages(pt) - released_pages(pt)
  /\ r.count = Cardinality({p \in Pages : p \notin pt.free_.bits
                                          /\ p \notin pt.released_by_page_})
  /\ released_pages(r.pt) = free_pages(r.pt)
  /\ r.pt.released_by_page_ = Pages \ pt.free_.bits
  /\ r.pt.free_ = pt.free_

\* A ReleaseFree on pt that follows a ReleaseFree with no Get or Put in
\* between: there is no run to call unback on, so whatever unback would
\* return the call returns 0 and leaves pt as it is.
ReleaseFreeAgainHolds(pt) ==
  /\ RunStarts(pt) = {}
  /\ \A bad \in SUBSET Pages : ReleaseFree(pt, bad) = [pt |-> pt, count |-> 0]

\* C14: with an unback that always succeeds, ReleaseFree returns exactly the
\* number of pages that were free and not yet released on entry and leaves
\* released_pages = free_pages; a second ReleaseFree with no Get or Put in
\* between returns 0, makes no unback call and changes nothing.
C14_ReleaseFreeTwice ==
  \A id \in Trackers :
    /\ ReleaseFreeAllHolds(trackers[id], ReleaseFree(trackers[id], {}))
    /\ ReleaseFreeAgainHolds(ReleaseFree(trackers[id], {}).pt)

\* A tracker with a used page, a released page and a free backed page:
\* ReleaseFree releases that one page.
C14_Witness ==
  \E id \in Trackers :
    /\ used_pages(trackers[id]) > 0
    /\ released_pages(trackers[id]) > 0
    /\ ReleaseFree(trackers[id], {}).count = 1
    /\ ReleaseFree(trackers[id], {}).pt # trackers[id]

\* The trackers on the partially released lists.
PartialMembers ==
  ListMembers(filler.regular_alloc_partial_released_[kSparse])
    \cup ListMembers(filler.regular_alloc_partial_released_[kDense])

\* The free pages of the trackers of S that are still backed.
BackedFree(S) ==
  SumOver(S, [id \in Trackers |-> free_pages(trackers[id]) - released_pages(trackers[id])])

\* The target of ReleasePages(desired, {0, 0, 0}, release_partial_alloc_pages,
\* hit_limit).
TargetOf(in) ==
  IF in[2] /\ ~in[3] THEN Max(in[1], FreePagesInPartialAllocs(filler) \div 10) ELSE in[1]

\* r1 is what the first while loop of a ReleasePages call with target
\* desired gives and r what the call gives: the first loop leaves the
\* trackers that are not partially released alone, and when it reaches the
\* target the call returns what it gave.
PartialFirstHolds(desired, r1, r) ==
  /\ \A id \in Trackers \ PartialMembers : r1.W.t[id] = trackers[id]
  /\ r1.W.s.num_hugepages_broken = 0
  /\ r1.total_released >= desired => r = r1
  /\ \A id \in Trackers \ PartialMembers :
       r.W.t[id] # trackers[id] => r1.total_released < desired

\* r is what a ReleasePages call with target desired and a succeeding unback
\* gives: when unmapping_unaccounted_ and the backed free pages of the
\* partially released trackers reach the target, no other tracker is
\* released from and no huge page is broken.
PartialSufficesHolds(desired, r) ==
  filler.unmapping_unaccounted_ + BackedFree(PartialMembers) >= desired =>
    /\ \A id \in Trackers \ PartialMembers : r.W.t[id] = trackers[id]
    /\ r.W.s.num_hugepages_broken = 0
    /\ r.total_released >= desired

\* C15: ReleasePages releases from the partially released trackers first: a
\* tracker of regular_alloc_[kSparse], regular_alloc_[kDense] or
\* donated_alloc_ is released from only after the first loop has ended with
\* total_released < desired, and when the backed free pages of the partially
\* released trackers suffice to reach desired (unback succeeding) no tracker
\* outside those lists is broken.
C15_PartialFirst ==
  \A in \in ReleaseProbes : \A tie \in Ties :
    /\ (~in[2] /\ filler.unmapping_unaccounted_ < TargetOf(in)) =>
         \A bad \in BadSets :
           PartialFirstHolds(
             TargetOf(in),
             ReleasePagesPartial(ReleasePagesUnaccounted(World),
                                 filler.unmapping_unaccounted_, TargetOf(in),
                                 in[3], bad, tie),
             ReleasePages(World, in[1], NoIntervals, in[2], in[3], bad, tie))
    /\ PartialSufficesHolds(TargetOf(in),
                            ReleasePages(World, in[1], NoIntervals, in[2], in[3], {}, tie))

\* The filler holds a partially released tracker and an unbroken tracker
\* with a free page: ReleasePages(1) releases from the first and leaves the
\* second alone, and ReleasePages(2) goes on to break the second.
C15_Witness ==
  \E a \in PartialMembers : \E b \in Held \ PartialMembers :
    /\ trackers[b].unbroken_ /\ free_pages(trackers[b]) > 0
    /\ BackedFree({a}) = 1 /\ filler.unmapping_unaccounted_ = 0
    /\ \E tie \in Ties :
         /\ ReleasePages(World, 1, NoIntervals, FALSE, FALSE, {}, tie).W.t[a] # trackers[a]
         /\ ReleasePages(World, 1, NoIntervals, FALSE, FALSE, {}, tie).W.t[b] = trackers[b]
         /\ ReleasePages(World, 2, NoIntervals, FALSE, FALSE, {}, tie).W.t[b] # trackers[b]

\* Demand histories ReleasePages is examined with: nothing recorded; a
\* demand between 1 page and all pages recorded in every epoch; the same
\* recorded so long ago that the clock has moved past every epoch.
HistorySamples ==
  {NewFillerStatsTracker,
   [entries |-> [i \in 1 .. kEpochs |->
                   [empty |-> FALSE, min_demand |-> 1, max_demand |-> NumTrackers * P]],
    elapsed |-> 0],
   [entries |-> [i \in 1 .. kEpochs |->
                   [empty |-> FALSE, min_demand |-> 1, max_demand |-> NumTrackers * P]],
    elapsed |-> kEpochs]}

\* Skip-subrelease intervals ReleasePages is examined with: a peak interval
\* of one epoch, a peak interval shorter than an epoch, and a short and a
\* long interval with no peak interval.
IntervalSamples ==
  {[peak_interval |-> EpochLength, short_interval |-> 0, long_interval |-> 0],
   [peak_interval |-> 1, short_interval |-> 0, long_interval |-> 0],
   [peak_interval |-> 0, short_interval |-> EpochLength,
    long_interval |-> kEpochs * EpochLength]}

\* The pages of the held trackers that are released in world W and were not
\* on entry: the pages unback succeeded on.
NewlyReleased(W) ==
  SumOver(Trackers,
          [id \in Trackers |->
             Cardinality(W.t[id].released_by_page_ \ trackers[id].released_by_page_)])

\* r, the result of a ReleasePages call: the value returned is
\* unmapping_unaccounted_ on entry plus the pages unback succeeded on,
\* unmapped_ has grown by these pages and unmapping_unaccounted_ is 0.
ReturnsReleasedHolds(r) ==
  /\ r.total_released = filler.unmapping_unaccounted_ + NewlyReleased(r.W)
  /\ r.W.f.unmapped_ = filler.unmapped_ + NewlyReleased(r.W)
  /\ r.W.f.unmapping_unaccounted_ = 0
  /\ \A id \in Trackers : trackers[id].released_by_page_ \subseteq r.W.t[id].released_by_page_

\* C16: ReleasePages returns the number of pages actually released: the
\* value of unmapping_unaccounted_ on entry plus the number of pages for
\* which unback succeeded during the call; unmapped_ grows by exactly that
\* second term and unmapping_unaccounted_ is 0 on return.
C16_ReturnsReleased ==
  \A tie \in Ties :
    /\ \A in \in ReleaseInputs : \A bad \in BadSets :
         ReturnsReleasedHolds(
           ReleasePages(World, in[1], NoIntervals, in[2], in[3], bad, tie))
    /\ \A intervals \in IntervalSamples : \A h \in HistorySamples :
         ReturnsReleasedHolds(
           ReleasePages(WorldAfter(h), MaxDesired, intervals, FALSE, FALSE, {}, tie))

\* ReleasePages(2) drains one unaccounted page and releases one more page,
\* an unback call on another run failing.
C16_Witness ==
  /\ filler.unmapping_unaccounted_ = 1
  /\ \E tie \in Ties : \E bad \in BadSets :
       /\ bad # {}
       /\ ReleasePages(World, 2, NoIntervals, FALSE, FALSE, bad, tie).total_released = 2
       /\ NewlyReleased(ReleasePages(World, 2, NoIntervals, FALSE, FALSE, bad, tie).W) = 1

\* r is what ReleasePages gives when entered with the demand history h and
\* r0 what it gives, for the same filler state, target and hit_limit, with
\* nothing recorded and every interval zero: the same pages are released and
\* the same value is returned, the history is not even brought up to date,
\* and no skipped subrelease is reported.
NoSkipHolds(h, r, r0) ==
  /\ r = [r0 EXCEPT !.W.h = h]
  /\ r.W.k = <<>>

\* r0 is what ReleasePages gives for the target MaxDesired with nothing
\* recorded and every interval zero: every recorded history gives the same
\* with every interval zero, and with hit_limit = true whatever the intervals.
NoSkipAll(tie, hit_limit, r0) ==
  \A h \in HistorySamples \ {NewFillerStatsTracker} :
    /\ NoSkipHolds(
         h,
         ReleasePages(WorldAfter(h), MaxDesired, NoIntervals, FALSE, hit_limit, {}, tie),
         r0)
    /\ hit_limit =>
         \A intervals \in IntervalSamples :
           NoSkipHolds(
             h,
             ReleasePages(WorldAfter(h), MaxDesired, intervals, FALSE, TRUE, {}, tie),
             r0)

\* C17: skip-subrelease is applied by ReleasePages only when some interval
\* is non-zero and hit_limit is false: with hit_limit = true, or with all
\* three intervals zero, the target is not reduced and no skipped-subrelease
\* decision is recorded, so for the same filler state the pages released and
\* the value returned do not depend on the recorded demand history.
C17_SkipOnlyWhenEnabled ==
  \A tie \in Ties : \A hit_limit \in BOOLEAN :
    NoSkipAll(tie, hit_limit,
              ReleasePages(World, MaxDesired, NoIntervals, FALSE, hit_limit, {}, tie))

\* With a demand history and intervals for which skip-subrelease holds pages
\* back (fewer pages are released than with every interval zero, and the
\* skipped pages are reported), the same call with hit_limit = true releases
\* as if every interval were zero.
C17_Witness ==
  \E tie \in Ties : \E h \in HistorySamples : \E intervals \in IntervalSamples :
    /\ ReleasePages(WorldAfter(h), MaxDesired, intervals, FALSE, FALSE, {}, tie).total_released
         < ReleasePages(World, MaxDesired, NoIntervals, FALSE, FALSE, {}, tie).total_released
    /\ ReleasePages(WorldAfter(h), MaxDesired, intervals, FALSE, FALSE, {}, tie).W.k # <<>>
    /\ ReleasePages(WorldAfter(h), MaxDesired, intervals, FALSE, TRUE, {}, tie).total_released
         = ReleasePages(World, MaxDesired, NoIntervals, FALSE, TRUE, {}, tie).total_released
    /\ ReleasePages(WorldAfter(h), MaxDesired, intervals, FALSE, TRUE, {}, tie).total_released > 0

\* Demand histories GetDesiredSubreleasePages is examined with: nothing
\* recorded, and a demand between 1 page and d pages recorded in every epoch,
\* d being 1 page, the pages of a tracker, and the pages of all trackers.
DemandHistories ==
  {NewFillerStatsTracker}
    \cup {[entries |-> [i \in 1 .. kEpochs |->
                          [empty |-> FALSE, min_demand |-> 1, max_demand |-> d]],
           elapsed |-> 0] : d \in {1, P, NumTrackers * P}}

\* The <<desired, total_released>> ReleasePages calls GetDesiredSubreleasePages
\* with in the current state: total_released is unmapping_unaccounted_ and
\* desired is larger.
DesiredSamples ==
  {<<desired, filler.unmapping_unaccounted_>> :
     desired \in (filler.unmapping_unaccounted_ + 1) .. (NumTrackers * P + MaxUnaccounted)}

\* The world ReleasePages calls GetDesiredSubreleasePages in, the recorded
\* demand being h.
SkipWorld(h) == ReleasePagesUnaccounted(WorldAfter(h))

\* The filler's current = used_pages() + free_pages().
CurrentPages == filler_used_pages(filler) + filler_free_pages(filler)

\* The demand requirement of the intervals once the current demand is
\* recorded in the history h.
RequiredPages(h, intervals) ==
  IF IsPeakIntervalSet(intervals)
  THEN GetRecentPeak(TimeSeriesReport(h, pages_allocated(filler)), intervals.peak_interval)
  ELSE GetRecentDemand(TimeSeriesReport(h, pages_allocated(filler)),
                       intervals.short_interval, intervals.long_interval)

\* The target of the specification for the requirement required.
SkipTarget(desired, total_released, required) ==
  IF required >= CurrentPages THEN total_released
  ELSE Min(desired, total_released + (CurrentPages - required))

\* The target is between total_released and desired and is SkipTarget.
SkipTargetHolds(target, desired, total_released, required) ==
  /\ total_released <= target
  /\ target <= desired
  /\ target = SkipTarget(desired, total_released, required)

\* Every target GetDesiredSubreleasePages returns in the world W1 for the
\* intervals is the target of the specification for the requirement required.
SkipTargetAsStated(W1, intervals, required) ==
  \A in \in DesiredSamples :
    SkipTargetHolds(GetDesiredSubreleasePages(W1, in[1], in[2], intervals).desired,
                    in[1], in[2], required)

\* The same for a non-zero requirement, and desired unchanged for the
\* requirement zero.
SkipTargetAmended(W1, intervals, required) ==
  IF required = 0
  THEN \A in \in DesiredSamples :
         GetDesiredSubreleasePages(W1, in[1], in[2], intervals).desired = in[1]
  ELSE SkipTargetAsStated(W1, intervals, required)

\* C18 as stated: with skip-subrelease enabled, GetDesiredSubreleasePages
\* returns a target between released and desired, which is released when the
\* required demand is at least current = used_pages + free_pages and
\* min(desired, released + (current - required)) otherwise.
C18_TargetAsStated ==
  \A h \in DemandHistories : \A intervals \in IntervalSamples :
    SkipTargetAsStated(SkipWorld(h), intervals, RequiredPages(h, intervals))

\* C18: with skip-subrelease enabled, GetDesiredSubreleasePages returns
\* desired unchanged when the required demand is zero; when it is non-zero the
\* target is between released and desired, and it is released when the
\* required demand is at least current = used_pages + free_pages and
\* min(desired, released + (current - required)) otherwise.
C18_SkipTarget ==
  \A h \in DemandHistories : \A intervals \in IntervalSamples :
    SkipTargetAmended(SkipWorld(h), intervals, RequiredPages(h, intervals))

\* GetDesiredSubreleasePages lowers a target: the required demand is below
\* current and the target is strictly between released and desired; for a
\* larger recorded demand the target is released; and for an interval with
\* no demand the target is desired.
C18_Witness ==
  \E in \in DesiredSamples : \E intervals \in IntervalSamples :
    /\ \E h \in DemandHistories :
         /\ 0 < RequiredPages(h, intervals)
         /\ RequiredPages(h, intervals) < CurrentPages
         /\ in[2] < GetDesiredSubreleasePages(SkipWorld(h), in[1], in[2], intervals).desired
         /\ GetDesiredSubreleasePages(SkipWorld(h), in[1], in[2], intervals).desired < in[1]
    /\ \E h \in DemandHistories :
         /\ RequiredPages(h, intervals) >= CurrentPages
         /\ GetDesiredSubreleasePages(SkipWorld(h), in[1], in[2], intervals).desired = in[2]
    /\ \E h \in DemandHistories : \E short \in IntervalSamples :
         /\ RequiredPages(h, short) = 0
         /\ GetDesiredSubreleasePages(SkipWorld(h), in[1], in[2], short).desired = in[1]

\* The decision counter a has not gone below b, in pages and in count.
NotBelow(a, b) == a.pages >= b.pages /\ a.count >= b.count

\* C19: over any sequence of ReportSkippedSubreleasePages and
\* ReportUpdatedPeak calls and clock advances, correctly_skipped (pages and
\* count) and total_skipped (pages and count) never decrease.
C19_CountersNeverRevert ==
  [][/\ NotBelow(correctness'.correctly_skipped_, correctness.correctly_skipped_)
     /\ NotBelow(correctness'.total_skipped_, correctness.total_skipped_)]_vars

\* A decision has been confirmed correct, another has been reported since,
\* and the clock has advanced since the last call.
C19_Witness ==
  /\ correctness.correctly_skipped_.count > 0
  /\ correctness.total_skipped_.count > correctness.correctly_skipped_.count
  /\ correctness.entries[1].decisions.count > 0
  /\ correctness.elapsed > 0

\* FillerStatsTracker::Report calls ReportUpdatedPeak when the epoch has
\* changed and decisions are pending.
PeakReportable == correctness.elapsed > 0 /\ correctness.pending_skipped_.count > 0

\* The offsets > 0 of the entries of tracker_.
PastOffsets == 1 .. (kEpochs - 1)

\* r being the tracker after ReportUpdatedPeak(current_peak): the offsets of
\* the entries whose decisions no confirmed peak has reached, neither
\* current_peak nor a peak confirmed in the epoch of the decisions or since.
Unreached(r, current_peak) ==
  {offset \in PastOffsets :
     /\ r.entries[offset + 1].decisions.count > 0
     /\ r.entries[offset + 1].max_num_pages_at_decision > current_peak
     /\ \A later \in 1 .. offset :
          r.entries[offset + 1].max_num_pages_at_decision
            > r.entries[later + 1].max_confirmed_peak}

\* The offsets of the entries whose correctness interval has not elapsed.
WithinInterval(r) ==
  {offset \in PastOffsets : offset <= r.entries[offset + 1].correctness_interval_epochs}

\* The decisions of the entries of r at offsets, added up.
DecisionsAt(r, offsets) ==
  [pages |-> SumOver(offsets, [offset \in PastOffsets |->
                                 r.entries[offset + 1].decisions.pages]),
   count |-> SumOver(offsets, [offset \in PastOffsets |->
                                 r.entries[offset + 1].decisions.count])]

\* The decisions r (the tracker after ReportUpdatedPeak(current_peak) on c)
\* has added to correctly_skipped_ are of entries current_peak has reached.
NotConfirmedHolds(c, r, current_peak) ==
  NotBelow(
    DecisionAdd(
      c.correctly_skipped_,
      DecisionsAt(r, {offset \in PastOffsets :
                        r.entries[offset + 1].max_num_pages_at_decision <= current_peak})),
    r.correctly_skipped_)

\* C20 as stated: a decision whose peak no later confirmed peak reaches is
\* never added to correctly_skipped and stays counted in pending_skipped,
\* also after its correctness interval has elapsed.
C20_StaysPending ==
  PeakReportable =>
    \A current_peak \in 0 .. MaxPeak :
      /\ NotConfirmedHolds(correctness, ReportUpdatedPeak(correctness, current_peak),
                           current_peak)
      /\ NotBelow(ReportUpdatedPeak(correctness, current_peak).pending_skipped_,
                  DecisionsAt(ReportUpdatedPeak(correctness, current_peak),
                              Unreached(ReportUpdatedPeak(correctness, current_peak),
                                        current_peak)))

\* r, the tracker after ReportUpdatedPeak(current_peak): the unreached
\* decisions whose interval has not elapsed are counted in pending_skipped_,
\* and no decision whose interval has elapsed or whose peak is reached is.
PendingWithinIntervalHolds(r, current_peak) ==
  /\ NotBelow(r.pending_skipped_,
              DecisionsAt(r, Unreached(r, current_peak) \cap WithinInterval(r)))
  /\ NotBelow(DecisionsAt(r, {offset \in WithinInterval(r) :
                                r.entries[offset + 1].max_num_pages_at_decision
                                  > current_peak}),
              r.pending_skipped_)

\* C20: a decision whose peak no later confirmed peak reaches is never added
\* to correctly_skipped; a ReportUpdatedPeak call counts it in pending_skipped
\* while its epoch is at most correctness_interval_epochs old, and no longer
\* once the correctness interval has elapsed.
C20_PendingWithinInterval ==
  PeakReportable =>
    \A current_peak \in 0 .. MaxPeak :
      /\ NotConfirmedHolds(correctness, ReportUpdatedPeak(correctness, current_peak),
                           current_peak)
      /\ PendingWithinIntervalHolds(ReportUpdatedPeak(correctness, current_peak),
                                    current_peak)

\* ReportUpdatedPeak(0) finds two unreached decisions: one within its
\* correctness interval, which it counts as pending, and one whose interval
\* has elapsed, which it does not count; it confirms neither.
C20_Witness ==
  /\ PeakReportable
  /\ Unreached(ReportUpdatedPeak(correctness, 0), 0)
       \cap WithinInterval(ReportUpdatedPeak(correctness, 0)) # {}
  /\ Unreached(ReportUpdatedPeak(correctness, 0), 0)
       \ WithinInterval(ReportUpdatedPeak(correctness, 0)) # {}
  /\ ReportUpdatedPeak(correctness, 0).pending_skipped_
       = DecisionsAt(ReportUpdatedPeak(correctness, 0),
                     Unreached(ReportUpdatedPeak(correctness, 0), 0)
                       \cap WithinInterval(ReportUpdatedPeak(correctness, 0)))
  /\ ReportUpdatedPeak(correctness, 0).correctly_skipped_ = correctness.correctly_skipped_

\* The region hr: pages_used_[i] is in [0, P] for every huge page, nbacked_
\* is the number of backed huge pages, and free_pages() does not underflow,
\* so that used, unmapped and free pages add up to the region.
RegionCountsHold(hr) ==
  /\ \A i \in HugePages : 0 <= hr.pages_used_[i] /\ hr.pages_used_[i] <= P
  /\ hr.nbacked_ = Cardinality({i \in HugePages : hr.backed_[i]})
  /\ region_free_pages(hr) >= 0
  /\ region_used_pages(hr) + region_unmapped_pages(hr) + region_free_pages(hr) = RegionSize
  /\ region_free_pages(hr)
       = Cardinality({p \in RegionPages : p \notin hr.tracker_.bits /\ hr.backed_[p \div P]})

\* C21: after every HugeRegion operation (MaybeGet, Put with or without
\* release, Release; unback succeeding or failing) pages_used_[i] is in
\* [0, P], nbacked_ is the number of huge pages with backed_ set, and
\* used_pages + unmapped_pages + free_pages = N * P, free_pages being
\* computed without underflow.
C21_RegionCounts == \A id \in Regions : RegionCountsHold(regions[id])

\* A region that has unbacked huge pages before holds a huge page in use,
\* next to a huge page that is free and still backed.
C21_Witness ==
  \E id \in Regions :
    /\ regions[id].total_unbacked_ > 0
    /\ free_backed(regions[id]) > 0
    /\ \E i \in HugePages : 0 < regions[id].pages_used_[i] /\ regions[id].pages_used_[i] < P
    /\ region_unmapped_pages(regions[id]) > 0

\* The huge pages of a region that the n pages from the offset index on lie
\* on.
CoveredHugePages(index, n) == {p \div P : p \in Range(index, n)}

\* What MaybeGet(n) on the region hr returned as g: it found a range iff the
\* region has a free run of n pages; a failing call left the region as it
\* was; a successful one handed out n pages that were free, all its huge
\* pages are backed afterwards, and from_released says whether one of them
\* was unbacked on entry.
MaybeGetHolds(hr, n, g) ==
  /\ g.found <=> \E i \in RegionPages :
                   i + n <= RegionSize /\ Range(i, n) \cap hr.tracker_.bits = {}
  /\ ~g.found => g.hr = hr /\ ~g.from_released
  /\ g.found =>
       /\ g.page + n <= RegionSize
       /\ Range(g.page, n) \cap hr.tracker_.bits = {}
       /\ g.hr.tracker_.bits = hr.tracker_.bits \cup Range(g.page, n)
       /\ \A i \in CoveredHugePages(g.page, n) : g.hr.backed_[i]
       /\ g.from_released <=> \E i \in CoveredHugePages(g.page, n) : ~hr.backed_[i]

\* C22: HugeRegion::MaybeGet(n) succeeds iff n <= the longest free run; a
\* failing call changes nothing; after a successful call every huge page
\* the range covers is backed, and from_released is true iff at least one
\* of them was unbacked on entry.
C22_MaybeGet ==
  \A id \in Regions : \A n \in 1 .. RegionSize :
    MaybeGetHolds(regions[id], n, HugeRegionMaybeGet(regions[id], n))

\* A region in use and with unbacked huge pages where one request gets a
\* range from backed memory only, another gets one that covers an unbacked
\* huge page, and a third does not fit.
C22_Witness ==
  \E id \in Regions : \E n1, n2, n3 \in 1 .. RegionSize :
    /\ regions[id].tracker_.bits # {}
    /\ HugeRegionMaybeGet(regions[id], n1).found
    /\ ~HugeRegionMaybeGet(regions[id], n1).from_released
    /\ HugeRegionMaybeGet(regions[id], n2).found
    /\ HugeRegionMaybeGet(regions[id], n2).from_released
    /\ \E i \in CoveredHugePages(HugeRegionMaybeGet(regions[id], n2).page, n2) :
         regions[id].backed_[i]
    /\ ~HugeRegionMaybeGet(regions[id], n3).found

\* The region that contains the page p.
RegionOf(p) == CHOOSE id \in Regions : contains(id, p)

\* The huge pages of the region hr1 that the put of the n pages from the
\* offset index on left with zero used pages.
EmptiedBy(hr1, index, n) == {i \in CoveredHugePages(index, n) : hr1.pages_used_[i] = 0}

\* A put under kDefault, unback_ succeeding, that took the region from hr to
\* hr1: the huge pages it left with zero used pages are unbacked, and no
\* other huge page changed.
PutUnbacksEmptied(hr, hr1, index, n) ==
  /\ \A i \in HugePages :
       hr1.backed_[i] <=> (hr.backed_[i] /\ i \notin EmptiedBy(hr1, index, n))
  /\ hr1.nbacked_ = hr.nbacked_ - Cardinality(EmptiedBy(hr1, index, n))
  /\ hr1.total_unbacked_ = hr.total_unbacked_ + Cardinality(EmptiedBy(hr1, index, n))

\* A put under kUseForAllLargeAllocs that took the region from hr to hr1:
\* nothing is unbacked, and the pages put are free and backed.
PutKeepsBacked(hr, hr1, index, n) ==
  /\ hr1.backed_ = hr.backed_
  /\ hr1.nbacked_ = hr.nbacked_
  /\ hr1.total_unbacked_ = hr.total_unbacked_
  /\ region_free_pages(hr1) = region_free_pages(hr) + n
  /\ free_backed(hr1) = free_backed(hr) + Cardinality(EmptiedBy(hr1, index, n))

\* C23: auto-release on Put follows the usage option.  Under kDefault,
\* HugeRegionSet::MaybePut unbacks every huge page that the put leaves with
\* zero used pages (unback_ succeeding); under kUseForAllLargeAllocs
\* MaybePut makes no unback_ call, whatever unback_ would answer, and the
\* pages stay backed and free.
C23_AutoRelease ==
  \A in \in region_spans : \A bad \in BadGroups :
    LET id  == RegionOf(in[1])
        hr  == regions[id]
        r   == HugeRegionSetMaybePut(RegionWorld, in[1], in[2], bad)
        hr1 == r.S.regions[id]
    IN /\ r.found
       /\ region_set.use_huge_region_more_often_ = kDefault /\ bad = {}
            => PutUnbacksEmptied(hr, hr1, in[1] - location_start(id), in[2])
       /\ region_set.use_huge_region_more_often_ = kUseForAllLargeAllocs
            => PutKeepsBacked(hr, hr1, in[1] - location_start(id), in[2])

\* Under kUseForAllLargeAllocs a region holds a huge page that an earlier
\* put left free and backed, and a range whose put empties another huge
\* page.
C23_Witness ==
  /\ region_set.use_huge_region_more_often_ = kUseForAllLargeAllocs
  /\ \E in \in region_spans :
       LET id  == RegionOf(in[1])
           hr1 == HugeRegionSetMaybePut(RegionWorld, in[1], in[2], {}).S.regions[id]
       IN /\ free_backed(regions[id]) > 0
          /\ EmptiedBy(hr1, in[1] - location_start(id), in[2]) # {}

\* What Release(release_fraction) on the region hr returned as r equals the
\* decrease of nbacked_ and the increase of total_unbacked_.
ReleaseReturnHolds(hr, r) ==
  /\ r.released = hr.nbacked_ - r.hr.nbacked_
  /\ r.released = r.hr.total_unbacked_ - hr.total_unbacked_

\* What ReleasePages on the set returned as r is, in pages, the number of
\* huge pages its regions lost from nbacked_.
ReleasePagesReturnHolds(r) ==
  r.released =
    P * SumOver(Contributed,
                [id \in Contributed |-> regions[id].nbacked_ - r.S.regions[id].nbacked_])

\* C24: HugeRegion::Release(fraction) returns the number of huge pages it
\* actually released, that is the decrease of nbacked_ and the increase of
\* total_unbacked_ the call caused, and HugeRegionSet::ReleasePages returns
\* the sum of these in pages; unback_ may fail on a group.
C24_ReleaseReturnsReleased ==
  /\ \A id \in Regions : \A release_fraction \in Fractions : \A bad \in BadGroups :
       ReleaseReturnHolds(regions[id], HugeRegionRelease(regions[id], release_fraction, bad))
  /\ \A release_fraction \in Fractions : \A bad \in BadGroupsByRegion :
       ReleasePagesReturnHolds(HugeRegionSetReleasePages(RegionWorld, release_fraction, bad))

\* The same with unback_ succeeding on every group.
ReleaseReturnsReleasedWhenUnbacked ==
  /\ \A id \in Regions : \A release_fraction \in Fractions :
       ReleaseReturnHolds(regions[id], HugeRegionRelease(regions[id], release_fraction, {}))
  /\ \A release_fraction \in Fractions :
       ReleasePagesReturnHolds(
         HugeRegionSetReleasePages(RegionWorld, release_fraction, [id \in Regions |-> {}]))

\* The first huge page of the contiguous group of flagged that k is in.
GroupStart(flagged, k) ==
  CHOOSE i \in 0 .. k : /\ \A j \in i .. k : j \in flagged
                        /\ (i = 0 \/ (i - 1) \notin flagged)

\* The flagged huge pages whose group unback_ fails on.
FailedHugePages(flagged, bad) == {k \in flagged : GroupStart(flagged, k) \in bad}

\* UnbackHugepages took the region from hr to hr1 for the huge pages
\* flagged, unback_ failing on the groups that start in bad: the huge pages
\* of a failed group are still backed and counted by free_backed(), nbacked_
\* and total_unbacked_ move by the other groups only, and a later Release
\* of everything free, with unback_ succeeding, unbacks them.
UnbackFailureHolds(hr, hr1, flagged, bad) ==
  /\ \A k \in FailedHugePages(flagged, bad) : hr1.backed_[k] /\ hr1.pages_used_[k] = 0
  /\ \A k \in flagged \ FailedHugePages(flagged, bad) : ~hr1.backed_[k]
  /\ \A k \in HugePages \ flagged : hr1.backed_[k] = hr.backed_[k]
  /\ hr1.nbacked_ = hr.nbacked_ - Cardinality(flagged \ FailedHugePages(flagged, bad))
  /\ hr1.total_unbacked_
       = hr.total_unbacked_ + Cardinality(flagged \ FailedHugePages(flagged, bad))
  /\ free_backed(hr1) = Cardinality({k \in HugePages : hr1.backed_[k] /\ hr1.pages_used_[k] = 0})
  /\ \A k \in FailedHugePages(flagged, bad) :
       /\ k \in ReleaseMark(hr1, free_backed(hr1), 0, {}, 0).should_unback
       /\ ~HugeRegionRelease(hr1, <<1, 1>>, {}).hr.backed_[k]

\* The huge pages Release(release_fraction) marks on the region hr.
ReleaseFlagged(hr, release_fraction) ==
  ReleaseMark(hr, Max(ClampedTimes(free_backed(hr), release_fraction), 1), 0, {}, 0).should_unback

\* C25: when unback_ fails for a contiguous group of huge pages, during Put
\* with release or during Release, backed_, nbacked_ and total_unbacked_
\* are unchanged for that group: its huge pages stay flagged backed, are
\* still counted by free_backed(), and a later Release attempts them again.
C25_UnbackFailure ==
  \A id \in Regions : \A bad \in BadGroups :
    /\ \A in \in {s \in region_spans : contains(id, s[1])} :
         LET index == in[1] - location_start(id)
             hr1   == HugeRegionPut(regions[id], index, in[2], TRUE, bad)
         IN UnbackFailureHolds(regions[id], hr1, EmptiedBy(hr1, index, in[2]), bad)
    /\ \A release_fraction \in Fractions :
         UnbackFailureHolds(regions[id],
                            HugeRegionRelease(regions[id], release_fraction, bad).hr,
                            ReleaseFlagged(regions[id], release_fraction), bad)

\* A region where a Release marks two groups of huge pages, unback_ failing
\* on one and succeeding on the other, and where a put with release empties
\* a huge page that unback_ fails on.
C25_Witness ==
  \E id \in Regions : \E bad \in BadGroups :
    /\ FailedHugePages(ReleaseFlagged(regions[id], <<1, 1>>), bad) # {}
    /\ ReleaseFlagged(regions[id], <<1, 1>>)
         \ FailedHugePages(ReleaseFlagged(regions[id], <<1, 1>>), bad) # {}
    /\ \E in \in region_spans, bad2 \in BadGroups :
         /\ contains(id, in[1])
         /\ FailedHugePages(
              EmptiedBy(HugeRegionPut(regions[id], in[1] - location_start(id), in[2], TRUE, bad2),
                        in[1] - location_start(id), in[2]),
              bad2) # {}

\* The set S: list_ is sorted by longest_free ascending and holds the
\* regions of held, each once, n_ being their number.
SetListHolds(S, held) ==
  /\ \A k \in 1 .. (Len(S.set.list_) - 1) :
       longest_free(S.regions[S.set.list_[k]]) <= longest_free(S.regions[S.set.list_[k + 1]])
  /\ {S.set.list_[k] : k \in 1 .. Len(S.set.list_)} = held
  /\ Len(S.set.list_) = Cardinality(held)
  /\ S.set.n_ = Cardinality(held)

\* C26: after every HugeRegionSet operation (Contribute, MaybeGet, MaybePut,
\* ReleasePages) list_ is sorted by longest_free ascending and contains
\* each contributed region exactly once.
C26_SortedList ==
  /\ SetListHolds(RegionWorld, Contributed)
  /\ \A id \in Regions \ Contributed :
       SetListHolds(HugeRegionSetContribute(RegionWorld, id), Contributed \cup {id})
  /\ \A n \in 1 .. RegionSize :
       SetListHolds(HugeRegionSetMaybeGet(RegionWorld, n).S, Contributed)
  /\ \A in \in PutInputs : \A bad \in BadGroups :
       SetListHolds(HugeRegionSetMaybePut(RegionWorld, in[1], in[2], bad).S, Contributed)
  /\ \A release_fraction \in Fractions : \A bad \in BadGroupsByRegion :
       SetListHolds(HugeRegionSetReleasePages(RegionWorld, release_fraction, bad).S,
                    Contributed)

\* The set holds all regions, with different longest free runs, and a
\* MaybeGet as well as a MaybePut changes the order of the list.
C26_Witness ==
  /\ Contributed = Regions
  /\ longest_free(regions[region_set.list_[1]])
       < longest_free(regions[region_set.list_[Len(region_set.list_)]])
  /\ \E n \in 1 .. RegionSize :
       HugeRegionSetMaybeGet(RegionWorld, n).S.set.list_ # region_set.list_
  /\ \E in \in region_spans :
       HugeRegionSetMaybePut(RegionWorld, in[1], in[2], {}).S.set.list_ # region_set.list_

\* The regions of the set that have a free run of n pages.
Fitting(n) == {id \in Contributed : longest_free(regions[id]) >= n}

\* What MaybeGet(n) on the set returned as g: it found a range iff a region
\* fits, and then in a region whose longest free run was the smallest among
\* those of at least n pages, no other region being changed.
SetMaybeGetHolds(n, g) ==
  /\ g.found <=> Fitting(n) # {}
  /\ ~g.found => g.S = RegionWorld
  /\ g.found =>
       /\ RegionOf(g.page) \in Fitting(n)
       /\ \A id \in Fitting(n) :
            longest_free(regions[RegionOf(g.page)]) <= longest_free(regions[id])
       /\ g.S.regions[RegionOf(g.page)] = HugeRegionMaybeGet(regions[RegionOf(g.page)], n).hr
       /\ \A id \in Regions \ {RegionOf(g.page)} : g.S.regions[id] = regions[id]

\* What MaybePut(p, n) on the set returned as r: false, with nothing
\* changed, iff no region of the set contains p.
SetMaybePutHolds(p, r) ==
  /\ ~r.found <=> ~\E id \in Contributed : contains(id, p)
  /\ ~r.found <=> r.S = RegionWorld

\* The <<page, n>> MaybePut is probed with: PutInputs, and a range beyond
\* all regions.
PutProbes == PutInputs \cup {<<NumRegions * RegionSize, P + 1>>}

\* C27: HugeRegionSet::MaybeGet(n) allocates from a region whose longest
\* free run is the smallest among those that are >= n, and returns false
\* iff no region fits; MaybePut returns false, changing nothing, iff no
\* region contains p.
C27_BestFit ==
  /\ \A n \in 1 .. RegionSize : SetMaybeGetHolds(n, HugeRegionSetMaybeGet(RegionWorld, n))
  /\ \A in \in PutProbes : \A bad \in BadGroups :
       SetMaybePutHolds(in[1], HugeRegionSetMaybePut(RegionWorld, in[1], in[2], bad))

\* The set holds all regions, with different longest free runs and ranges
\* handed out: one request fits both regions, one only the region with the
\* longer run, one none.
C27_Witness ==
  /\ Contributed = Regions
  /\ region_spans # {}
  /\ \E n1, n2, n3 \in 1 .. RegionSize :
       /\ Fitting(n1) = Regions
       /\ Fitting(n2) # {} /\ Fitting(n2) # Regions
       /\ Fitting(n3) = {}
       /\ longest_free(regions[RegionOf(HugeRegionSetMaybeGet(RegionWorld, n1).page)])
            < longest_free(regions[RegionOf(HugeRegionSetMaybeGet(RegionWorld, n2).page)])

\* A TryGet outcome o for a request of n pages that is a tracker with a free
\* range of n pages that the filler held, or else not-found.
FoundFitsOrNotFound(o, n) ==
  /\ o.kind = "found" =>
       owner[o.pt] = "filler" /\ longest_free_range(trackers[o.pt]) >= n
  /\ o.kind # "found" => o.kind = "not_found"

HugePagePages(i) == Range(i * P, P)

\* The unback calls <<free_index, length, released_by_page_>> that
\* ReleaseFree makes on the tracker pt cover no used page and no page
\* released before.
ReleaseFreeCallsFree(pt, calls) ==
  \A k \in 1 .. Len(calls) :
    /\ calls[k][2] > 0
    /\ Range(calls[k][1], calls[k][2]) \cap pt.free_.bits = {}
    /\ Range(calls[k][1], calls[k][2]) \cap calls[k][3] = {}

\* The huge pages flagged for unback in the region hr have no page in use.
FlaggedUnused(hr, flagged) ==
  \A i \in flagged :
    /\ hr.pages_used_[i] = 0
    /\ HugePagePages(i) \cap hr.tracker_.bits = {}
    /\ hr.backed_[i]

\* C29: unback_ is never invoked on memory that contains a used page.
\* PageTracker::ReleaseFree passes only runs of pages that are free and not
\* yet released; HugePageFiller::Put unbacks the whole huge page only of a
\* tracker with no remaining allocation, which is on no list and which no
\* TryGet can return while pageheap_lock is dropped; HugeRegion, in Put with
\* release and in Release, unbacks only huge pages whose pages_used_ is 0
\* and that hold no allocated page.
C29_UnbackOnlyUnused ==
  /\ \A id \in Trackers : \A bad \in {b \in SUBSET Pages : Cardinality(b) <= MaxFailures} :
       owner[id] = "filler" =>
         ReleaseFreeCallsFree(trackers[id], ReleaseFreeCalls(trackers[id], 0, bad))
  /\ \A id \in Trackers :
       owner[id] = "unbacking" =>
         /\ used_pages(trackers[id]) = 0
         /\ nallocs(trackers[id]) = 0
         /\ spans[id] = {}
         /\ Occurrences(id) = 0
         /\ \A req \in Requests : TryGet(World, req[1], req[2], req[3]).pt # id
  /\ \A id \in Regions :
       /\ \A in \in {s \in region_spans : contains(id, s[1])} :
            LET d == DecLoop([regions[id] EXCEPT
                                !.tracker_ = Unmark(@, in[1] - location_start(id), in[2])],
                             in[1] - location_start(id), in[2], {})
            IN FlaggedUnused(d.hr, d.should_unback)
       /\ \A release_fraction \in Fractions :
            FlaggedUnused(regions[id], ReleaseFlagged(regions[id], release_fraction))

\* The Put of a tracker waits for unback_ while the filler holds a tracker
\* in use that ReleaseFree makes an unback call for, and a region holds a
\* range whose put with release unbacks one huge page and leaves another in
\* use, next to a free backed huge page that Release unbacks.
C29_Witness ==
  /\ \E a, b \in Trackers :
       /\ owner[a] = "unbacking"
       /\ owner[b] = "filler"
       /\ used_pages(trackers[b]) > 0
       /\ ReleaseFreeCalls(trackers[b], 0, {}) # <<>>
  /\ \E id \in Regions :
       /\ \E in \in region_spans :
            LET d == DecLoop([regions[id] EXCEPT
                                !.tracker_ = Unmark(@, in[1] - location_start(id), in[2])],
                             in[1] - location_start(id), in[2], {})
            IN /\ contains(id, in[1])
               /\ d.should_unback # {}
               /\ \E i \in CoveredHugePages(in[1] - location_start(id), in[2]) :
                    i \notin d.should_unback
       /\ ReleaseFlagged(regions[id], <<1, 1>>) # {}

\* While the Put of tracker id waits for unback_ with pageheap_lock dropped,
\* the tracker is on no list and no TryGet returns it.
PutWindowUnreachable(id) ==
  owner[id] = "unbacking" =>
    /\ Occurrences(id) = 0
    /\ \A req \in Requests : TryGet(World, req[1], req[2], req[3]).pt # id

\* A step seen from the Put of tracker id that has dropped pageheap_lock
\* around unback_.  While the Put waits, the step, an operation of another
\* thread, leaves the tracker and its ranges as they are.  When the step is
\* the return of the Put, the tracker goes back to the caller, only its
\* was_released flag being cleared, and the filler invariants hold: the
\* tracker lists and their classification, pages_allocated_ and the n_used
\* counters, unmapped_, and size_.
PutWindowStep(id) ==
  /\ owner[id] = "unbacking" /\ owner'[id] = "unbacking" =>
       trackers'[id] = trackers[id] /\ spans'[id] = spans[id]
  /\ owner[id] = "unbacking" /\ owner'[id] # "unbacking" =>
       /\ owner'[id] = "upstream"
       /\ trackers'[id] = [trackers[id] EXCEPT !.was_released_ = FALSE]
       /\ \A other \in Trackers \ {id} :
            trackers'[other] = trackers[other] /\ owner'[other] = owner[other]
       /\ C1_ExactlyOneList' /\ C2_Counters' /\ C3_Unmapped' /\ C4_ListClasses'
       /\ filler'.size_ = Cardinality({t \in Trackers : owner'[t] = "filler"})

\* C30: while HugePageFiller::Put has released pageheap_lock around unback_,
\* the operations of other threads (TryGet, Put on other trackers,
\* Contribute, ReleasePages) neither select nor mutate the tracker being
\* put, and for every interleaving the filler invariants (pages_allocated,
\* unmapped_, size, list membership and classification) hold once the lock
\* is taken again and Put returns.
C30_PutWindow ==
  /\ [](\A id \in Trackers : PutWindowUnreachable(id))
  /\ [][\A id \in Trackers : PutWindowStep(id)]_vars

\* A Put that dropped the lock has returned after a successful unback_
\* (unmapping_unaccounted_ is not drained yet), and the Put of another
\* tracker waits for unback_ now.
C30_Witness ==
  \E a, b \in Trackers :
    /\ owner[a] = "upstream" /\ trackers[a].unbroken_ = FALSE
    /\ filler.unmapping_unaccounted_ > 0
    /\ owner[b] = "unbacking"

\* The free pages of the held trackers that are still backed in world W:
\* what ReleasePages can still release.
BackedFreeIn(W) ==
  SumOver(Held, [id \in Trackers |-> free_pages(W.t[id]) - released_pages(W.t[id])])

\* The iterations of the first while loop of ReleasePages, in order: for
\* each, <<what ReleaseCandidates returned, the backed free pages before,
\* the backed free pages after>>.
RECURSIVE ReleasePartialTrace(_, _, _, _, _)
ReleasePartialTraceStep(W, r, total_released, desired, bad, tie) ==
  <<<<r.total_released, BackedFreeIn(W), BackedFreeIn(r.W)>>>>
    \o (IF r.total_released = 0 THEN <<>>
        ELSE ReleasePartialTrace(r.W, total_released + r.total_released, desired, bad, tie))

ReleasePartialTrace(W, total_released, desired, bad, tie) ==
  IF ~(total_released < desired) THEN <<>>
  ELSE ReleasePartialTraceStep(
         W, ReleaseCandidates(W, PartialCandidates(W, tie), desired - total_released, bad, tie),
         total_released, desired, bad, tie)

\* The same for the second while loop.
RECURSIVE ReleaseRegularTrace(_, _, _, _, _)
ReleaseRegularTraceStep(W, r, total_released, desired, bad, tie) ==
  <<<<r.total_released, BackedFreeIn(W), BackedFreeIn(r.W)>>>>
    \o (IF r.total_released = 0 THEN <<>>
        ELSE ReleaseRegularTrace(r.W, total_released + r.total_released, desired, bad, tie))

ReleaseRegularTrace(W, total_released, desired, bad, tie) ==
  IF ~(total_released < desired) THEN <<>>
  ELSE ReleaseRegularTraceStep(
         W, ReleaseCandidates(W, RegularCandidates(W, tie), desired - total_released, bad, tie),
         total_released, desired, bad, tie)

\* The iterations trace of a release loop: what an iteration reports as
\* released is the number of backed free pages it took away, every
\* iteration but the last releases at least one page, and so there are at
\* most as many iterations as backed free pages on entry, plus one.
LoopTerminates(trace) ==
  /\ \A k \in 1 .. Len(trace) :
       /\ trace[k][1] = trace[k][2] - trace[k][3]
       /\ trace[k][1] >= 0
       /\ k < Len(trace) => trace[k][1] > 0
       /\ k < Len(trace) => trace[k + 1][2] = trace[k][3]
  /\ trace # <<>> => Len(trace) <= trace[1][2] + 1

\* The targets ReleasePages is examined with: one page, and more than the
\* filler can hold.
TerminationTargets == {1, NumTrackers * P + 1}

\* The unback behaviours: at most MaxFailures failing calls, and every call
\* failing.
TerminationBadSets == BadSets \cup {UnbackSites}

\* C31: HugePageFiller::ReleasePages terminates for every filler state,
\* every desired value and every unback behaviour, unback always failing
\* included: each iteration of its two release loops either releases at
\* least one page, which lowers the number of backed free pages, or leaves
\* the loop.
C31_ReleaseTerminates ==
  \A desired \in TerminationTargets : \A bad \in TerminationBadSets : \A tie \in Ties :
    LET W0 == [ReleasePagesUnaccounted(World) EXCEPT !.s = set_limit_hit(@, FALSE)]
        r1 == ReleasePartialLoop(W0, filler.unmapping_unaccounted_, desired, bad, tie)
    IN /\ LoopTerminates(
            ReleasePartialTrace(W0, filler.unmapping_unaccounted_, desired, bad, tie))
       /\ LoopTerminates(ReleaseRegularTrace(r1.W, r1.total_released, desired, bad, tie))

\* The filler holds a partially released tracker and a regular one, both
\* with backed free pages: with a target beyond what the filler holds the
\* first loop makes two iterations and the second loop two, and with every
\* unback failing each loop ends after one iteration that releases nothing.
C31_Witness ==
  /\ PartialMembers # {} /\ Held \ PartialMembers # {}
  /\ \E tie \in Ties :
       LET W0 == [ReleasePagesUnaccounted(World) EXCEPT !.s = set_limit_hit(@, FALSE)]
           d  == NumTrackers * P + 1
           r1 == ReleasePartialLoop(W0, filler.unmapping_unaccounted_, d, {}, tie)
           f1 == ReleasePartialLoop(W0, filler.unmapping_unaccounted_, d, UnbackSites, tie)
       IN /\ Len(ReleasePartialTrace(W0, filler.unmapping_unaccounted_, d, {}, tie)) = 2
          /\ Len(ReleaseRegularTrace(r1.W, r1.total_released, d, {}, tie)) = 2
          /\ ReleasePartialTrace(W0, filler.unmapping_unaccounted_, d, UnbackSites, tie)
               = <<<<0, BackedFreeIn(World), BackedFreeIn(World)>>>>
          /\ Len(ReleaseRegularTrace(f1.W, f1.total_released, d, UnbackSites, tie)) = 1
          /\ BackedFreeIn(World) >= 2

\* The trackers on the donated list.
DonatedMembers == ListMembers(filler.donated_alloc_)

\* The donated flag of the trackers the filler holds tells which of them are
\* on the donated list, and a tracker the filler does not hold is not on it.
DonatedFlagHolds ==
  /\ \A id \in Held : trackers[id].donated_ <=> id \in DonatedMembers
  /\ DonatedMembers \subseteq Held

\* The trackers on the donated list have no dense span and no released page.
DonatedListHolds ==
  \A id \in DonatedMembers :
    ~trackers[id].has_dense_spans_ /\ released_pages(trackers[id]) = 0

\* A step in which the donated tracker id serves a TryGet or is subreleased
\* takes it off the donated list and clears its flag; and a held tracker
\* that is not donated is not donated after the step, unless the step hands
\* it back.
DonatedStep(id) ==
  /\ (/\ id \in DonatedMembers
      /\ \/ spans[id] \subseteq spans'[id] /\ spans'[id] # spans[id]
         \/ released_pages(trackers'[id]) > 0)
       => ~trackers'[id].donated_ /\ id \notin DonatedMembers'
  /\ (owner[id] = "filler" /\ ~trackers[id].donated_ /\ owner'[id] = "filler")
       => ~trackers'[id].donated_ /\ id \notin DonatedMembers'

\* C32 as stated: every tracker has donated_ = true exactly while it is on
\* the donated list.
C32_DonatedAsStated ==
  \A id \in Trackers : trackers[id].donated_ <=> id \in DonatedMembers

\* C32: a tracker the filler holds has donated_ = true exactly while it is
\* on the donated list (a donated tracker that Put empties is taken off the
\* list and handed back with donated_ still true); every tracker on the
\* donated list has no dense spans and no released pages; a donated tracker
\* that serves a TryGet or is subreleased leaves the donated list with
\* donated_ = false and does not return to it.
C32_Donated ==
  /\ [](DonatedFlagHolds /\ DonatedListHolds)
  /\ [][\A id \in Trackers : DonatedStep(id)]_vars

\* One tracker is on the donated list while the other, held and no longer
\* donated, has two spans and a released page.
C32_Witness ==
  \E a, b \in Held :
    /\ a \in DonatedMembers /\ trackers[a].donated_
    /\ b \notin DonatedMembers /\ ~trackers[b].donated_
    /\ Cardinality(spans[b]) = 2 /\ released_pages(trackers[b]) > 0

\* The density a tracker is filed under.
DensityOf(pt) == IF pt.has_dense_spans_ THEN kDense ELSE kSparse

\* The trackers on the released and partially released lists.
ReleasedMembers ==
  UNION {ListMembers(filler.regular_alloc_released_[d])
           \cup ListMembers(filler.regular_alloc_partial_released_[d]) : d \in Density}

\* n_was_released_[d] is the number of trackers of density d with
\* was_released set.
WasReleasedCountHolds ==
  \A d \in Density :
    filler.n_was_released_[d] =
      Cardinality({id \in Trackers : trackers[id].was_released_ /\ DensityOf(trackers[id]) = d})

\* TryGet giving r sets was_released on the tracker it found and adds one to
\* n_was_released_ of its density exactly when set holds, and otherwise
\* leaves both alone; no other tracker's flag changes.
TryGetLatches(r, set) ==
  /\ \A id \in Trackers \ {r.pt} : r.W.t[id].was_released_ = trackers[id].was_released_
  /\ r.pt # NoTracker =>
       /\ r.W.t[r.pt].was_released_ = (trackers[r.pt].was_released_ \/ set)
       /\ \A d \in Density :
            r.W.f.n_was_released_[d] =
              filler.n_was_released_[d]
                + (IF set /\ d = DensityOf(r.W.t[r.pt]) THEN 1 ELSE 0)
  /\ r.pt = NoTracker => r.W.f.n_was_released_ = filler.n_was_released_

\* Put of the span <<p, n>> of tracker id: once the call has returned (at
\* once, or after the unback it drops the lock for), was_released is clear
\* and no longer counted if the tracker became entirely free, and flag and
\* counter are as before otherwise.
PutClears(id, p, n) ==
  LET r == Put(World, id, p, n)
      ends == IF r.unlock
              THEN {PutAfterUnback(r.W, id, success).W : success \in BOOLEAN}
              ELSE {r.W}
      was == trackers[id].was_released_
  IN \A W \in ends :
       /\ used_pages(W.t[id]) = 0 =>
            /\ ~W.t[id].was_released_
            /\ \A d \in Density :
                 W.f.n_was_released_[d] =
                   filler.n_was_released_[d]
                     - (IF was /\ d = DensityOf(trackers[id]) THEN 1 ELSE 0)
       /\ used_pages(W.t[id]) > 0 =>
            /\ W.t[id].was_released_ = was
            /\ W.f.n_was_released_ = filler.n_was_released_

ScannedRegular ==
  {x[2] : x \in {y \in filler.regular_alloc_[kSparse] \cup filler.regular_alloc_[kDense] :
                   y[1] >= ChunksPerAlloc}}
    \cup ListMembers(filler.donated_alloc_)

\* Tracker a is strictly preferred to tracker b for subrelease: it has fewer
\* used pages, or as many and no dense span while b has dense spans.
StrictlyPreferred(a, b) ==
  \/ used_pages(trackers[a]) < used_pages(trackers[b])
  \/ /\ used_pages(trackers[a]) = used_pages(trackers[b])
     /\ ~trackers[a].has_dense_spans_ /\ trackers[b].has_dense_spans_

\* The candidates selected from the scanned trackers are eligible, as many
\* as there is room for, and none left out is strictly preferred to one
\* selected.
SelectionHolds(candidates) ==
  /\ candidates \subseteq ScannedRegular
  /\ \A c \in candidates : free_pages(trackers[c]) > released_pages(trackers[c])
  /\ Cardinality(candidates) = Min(kCandidatesForReleasingMemory, Cardinality(ScannedRegular))
  /\ \A u \in ScannedRegular \ candidates : \A c \in candidates :
       /\ ~StrictlyPreferred(u, c)
       /\ used_pages(trackers[c]) <= used_pages(trackers[u])

\* The trackers a ReleaseCandidates pass giving r released pages of.
ReleasedBy(r) ==
  {id \in DOMAIN trackers : released_pages(r.W.t[id]) > released_pages(trackers[id])}

\* The pass over the candidates in the order sorted takes them in
\* non-decreasing used_pages, without dense spans first at equal used_pages,
\* and the trackers it released are the first of that order.
OrderHolds(sorted, r) ==
  /\ \A i, j \in 1 .. Len(sorted) : i < j =>
       /\ ~StrictlyPreferred(sorted[j], sorted[i])
       /\ used_pages(trackers[sorted[i]]) <= used_pages(trackers[sorted[j]])
  /\ ReleasedBy(r) = {sorted[i] : i \in 1 .. Cardinality(ReleasedBy(r))}
  /\ \A a \in ReleasedBy(r) : \A b \in ScannedRegular \ ReleasedBy(r) : ~StrictlyPreferred(b, a)

\* C34: within one ReleaseCandidates pass trackers are released in
\* non-decreasing used_pages order, a tracker without dense spans before one
\* with dense spans at equal used_pages; and when more than
\* kCandidatesForReleasingMemory trackers are eligible in the scanned lists,
\* the ones SelectCandidates selects are that many trackers with the fewest
\* used_pages: no unselected tracker is strictly preferred to a selected
\* one.
C34_SubreleaseOrder ==
  \A tie \in SelectRanks :
    LET candidates == RegularCandidates(World, tie)
    IN /\ SelectionHolds(candidates)
       /\ \A target \in {1, P + 1} :
            OrderHolds(SortCandidates(World, candidates, tie),
                       ReleaseCandidates(World, candidates, target, {}, tie))

\* More trackers than kCandidatesForReleasingMemory are eligible, sparse and
\* dense ones at equal used_pages among them; the one left out has more
\* used pages than a selected one, and a pass with a target of more than a
\* huge page releases from several trackers and leaves a candidate alone.
C34_Witness ==
  /\ Cardinality(ScannedRegular) > kCandidatesForReleasingMemory
  /\ \E tie \in SelectRanks :
       LET candidates == RegularCandidates(World, tie)
           r == ReleaseCandidates(World, candidates, P + 1, {}, tie)
       IN /\ \E u \in ScannedRegular \ candidates : \E c \in candidates : StrictlyPreferred(c, u)
          /\ \E a, b \in candidates :
               /\ used_pages(trackers[a]) = used_pages(trackers[b])
               /\ ~trackers[a].has_dense_spans_ /\ trackers[b].has_dense_spans_
               /\ a \in ReleasedBy(r) /\ b \notin ReleasedBy(r)
          /\ Cardinality(ReleasedBy(r)) >= 2

\* The seven tracker lists of the filler f.
ListsOf(f) ==
  <<f.regular_alloc_[kSparse], f.regular_alloc_[kDense], f.donated_alloc_,
    f.regular_alloc_partial_released_[kSparse], f.regular_alloc_partial_released_[kDense],
    f.regular_alloc_released_[kSparse], f.regular_alloc_released_[kDense]>>

\* C35: if every unback invoked during ReleasePages returns false, every
\* tracker is afterwards on the same filler list it occupied before the
\* call and its donated flag is unchanged: a donated tracker examined as a
\* release candidate is still donated.
C35_FailedReleaseFrame ==
  \A in \in ReleaseProbes : \A tie \in Ties :
    LET r == ReleasePages(World, in[1], NoIntervals, in[2], in[3], UnbackSites, tie)
    IN /\ ListsOf(r.W.f) = ListsOf(filler)
       /\ \A id \in Trackers : r.W.t[id].donated_ = trackers[id].donated_

\* What does hold when every unback fails: the trackers that were not
\* donated stay where they are, and a donated tracker either stays or is
\* found on regular_alloc_[kSparse] with its donated flag cleared.
FailedReleaseKeepsRegular ==
  \A in \in ReleaseProbes : \A tie \in Ties :
    LET r == ReleasePages(World, in[1], NoIntervals, in[2], in[3], UnbackSites, tie)
    IN /\ \A k \in {2, 4, 5, 6, 7} : ListsOf(r.W.f)[k] = ListsOf(filler)[k]
       /\ filler.regular_alloc_[kSparse] \subseteq r.W.f.regular_alloc_[kSparse]
       /\ \A id \in Trackers :
            /\ ~trackers[id].donated_ => ~r.W.t[id].donated_
            /\ (trackers[id].donated_ /\ ~r.W.t[id].donated_) =>
                 id \in ListMembers(r.W.f.regular_alloc_[kSparse])
                      \ ListMembers(r.W.f.donated_alloc_)

\* C36: no skipped-subrelease decision is confirmed twice, nor counted both
\* as confirmed and as pending: correctly_skipped + pending_skipped <=
\* total_skipped, in pages and in count, for any interleaving of
\* ReportSkippedSubreleasePages, ReportUpdatedPeak (several in an epoch
\* included) and epoch rotations.
C36_NoDoubleConfirm ==
  /\ correctness.correctly_skipped_.pages + correctness.pending_skipped_.pages
       <= correctness.total_skipped_.pages
  /\ correctness.correctly_skipped_.count + correctness.pending_skipped_.count
       <= correctness.total_skipped_.count

\* Two decisions were reported in different epochs; one is confirmed and the
\* other pending, a confirming peak is on record for the current epoch, and
\* a second report of that peak in the same epoch changes nothing.
C36_Witness ==
  /\ correctness.total_skipped_.count = 2
  /\ correctness.correctly_skipped_.count = 1
  /\ correctness.pending_skipped_.count = 1
  /\ correctness.elapsed = 0
  /\ correctness.last_confirmed_peak_ > 0
  /\ ReportUpdatedPeak(correctness, correctness.last_confirmed_peak_) = correctness

\* The region hr: a huge page with pages in use is backed, pages_used_[i] is
\* the number of pages of huge page i that tracker_ has marked, and so the
\* sum of pages_used_ is tracker_.used().
RegionUsedHolds(hr) ==
  /\ \A i \in HugePages : hr.pages_used_[i] > 0 => hr.backed_[i]
  /\ \A i \in HugePages :
       hr.pages_used_[i] = Cardinality({p \in hr.tracker_.bits : p \div P = i})
  /\ SumOver(HugePages, hr.pages_used_) = Cardinality(hr.tracker_.bits)
  /\ SumOver(HugePages, hr.pages_used_) = region_used_pages(hr)

\* C37: in every reachable HugeRegion state a huge page with
\* pages_used_[i] > 0 is backed, and the sum of pages_used_[i] equals
\* tracker_.used().
C37_RegionUsed == \A id \in Regions : RegionUsedHolds(regions[id])

\* A region holds a range that spans two huge pages, one of them only
\* partly used, next to a huge page that was unbacked.
C37_Witness ==
  \E id \in Regions :
    /\ \E i, j \in HugePages :
         /\ i # j
         /\ regions[id].pages_used_[i] = P
         /\ 0 < regions[id].pages_used_[j] /\ regions[id].pages_used_[j] < P
    /\ \E i \in HugePages : ~regions[id].backed_[i]
    /\ regions[id].total_unbacked_ > 0
    /\ \E in \in region_spans : in[2] > P

\* The pages of the region hr that are not in use.
UnusedPages(hr) == RegionPages \ hr.tracker_.bits

\* What AddSpanStats counts on the region hr: its pieces are disjoint,
\* lie each on unused pages of huge pages that are all backed or all
\* unbacked, and cover the unused pages; the backed pieces add up to
\* free_pages() and the unbacked ones to unmapped_pages(), so both checks at
\* the end of AddSpanStats hold.
SpanStatsHold(hr) ==
  LET s == AddSpanStats(hr)
      pages(k) == Range(s.pieces[k][1], s.pieces[k][2])
  IN /\ \A k \in 1 .. Len(s.pieces) :
          /\ s.pieces[k][2] > 0
          /\ pages(k) \subseteq UnusedPages(hr)
          /\ \A p \in pages(k) : hr.backed_[p \div P] = ~s.pieces[k][3]
          /\ \A j \in 1 .. Len(s.pieces) : j # k => pages(j) \cap pages(k) = {}
     /\ UNION {pages(k) : k \in 1 .. Len(s.pieces)} = UnusedPages(hr)
     /\ s.f = Cardinality({p \in UnusedPages(hr) : hr.backed_[p \div P]})
     /\ s.u = Cardinality({p \in UnusedPages(hr) : ~hr.backed_[p \div P]})
     /\ s.f = region_free_pages(hr)
     /\ s.u = region_unmapped_pages(hr)
     /\ s.checks

\* C38: after any sequence of HugeRegion MaybeGet, Put and Release, cutting
\* the free runs where the huge pages change between backed and unbacked, as
\* AddSpanStats does, gives backed pieces that add up to free_pages() and
\* unbacked pieces that add up to unmapped_pages(): the two CHECK_CONDITIONs
\* at the end of AddSpanStats never fail.
C38_SpanStats == \A id \in Regions : SpanStatsHold(regions[id])

\* A free run of a region starts in the middle of a backed huge page and
\* runs on over an unbacked one: AddSpanStats cuts it in two, and counts
\* free and released pages.
C38_Witness ==
  \E id \in Regions :
    LET s == AddSpanStats(regions[id])
    IN /\ \E k \in 1 .. (Len(s.pieces) - 1) :
            /\ s.pieces[k][1] % P # 0
            /\ ~s.pieces[k][3] /\ s.pieces[k + 1][3]
            /\ s.pieces[k + 1][1] = s.pieces[k][1] + s.pieces[k][2]
       /\ s.f > 0 /\ s.u > 0
       /\ regions[id].total_unbacked_ > 0

\* The smallest of the numbers of the non-empty set S.
LeastOf(S) == CHOOSE x \in S : \A y \in S : x <= y

\* The epochs of the last interval ticks, by age, that have a sample.
SampledEpochs(interval) ==
  {age \in 0 .. (Min(interval \div EpochLength, kEpochs) - 1) : demand.samples[age] # {}}

\* The largest difference between the largest and the smallest demand
\* reported within one epoch, over the epochs of the last short_interval.
ShortTermFluctuation(short_interval) ==
  MaxOf({MaxOf(demand.samples[age]) - LeastOf(demand.samples[age]) :
           age \in SampledEpochs(short_interval)})

\* The largest of the smallest demands reported within one epoch, over the
\* epochs of the last long_interval.
LongTermTrend(long_interval) ==
  MaxOf({LeastOf(demand.samples[age]) : age \in SampledEpochs(long_interval)})

\* The largest demand reported in the epochs the series holds.
SeriesPeak == MaxOf(UNION {demand.samples[age] : age \in 0 .. (kEpochs - 1)})

\* The <<short_interval, long_interval>> GetRecentDemand is examined with:
\* from zero to more than the series covers, the short one not above the
\* long one when both are set.
DemandIntervals ==
  {in \in (0 .. ((kEpochs + 1) * EpochLength)) \X (0 .. ((kEpochs + 1) * EpochLength)) :
     in[1] = 0 \/ in[2] = 0 \/ in[1] <= in[2]}

\* C39 as stated: with no peak interval, the requirement is min(D, S + L),
\* D being the largest demand ever reported.
C39_AllTimeAsStated ==
  demand.h.elapsed = 0 =>
    \A in \in DemandIntervals :
      GetRecentDemand(demand.h, in[1], in[2]) =
        Min(demand.all_time_max, ShortTermFluctuation(in[1]) + LongTermTrend(in[2]))

\* C39: when peak_interval is zero, the demand requirement used by
\* skip-subrelease is min(D, S + L), where D is the maximum demand recorded
\* in the epochs the time series holds (the kEpochs latest; a larger demand
\* recorded before them no longer counts), S is the maximum over the epochs
\* of the last short_interval of (max_demand - min_demand) within an epoch,
\* and L is the maximum over the epochs of the last long_interval of
\* min_demand; epochs with no sample are ignored.
C39_RecentDemand ==
  demand.h.elapsed = 0 =>
    \A in \in DemandIntervals :
      GetRecentDemand(demand.h, in[1], in[2]) =
        Min(SeriesPeak, ShortTermFluctuation(in[1]) + LongTermTrend(in[2]))

\* The series is up to date; the largest demand ever reported has left it;
\* one of its epochs has no sample; and over all its epochs the fluctuation
\* and the trend add up to more than the largest demand it holds.
C39_Witness ==
  /\ demand.h.elapsed = 0
  /\ demand.all_time_max > SeriesPeak
  /\ \E age \in 1 .. (kEpochs - 1) : demand.samples[age] = {}
  /\ ShortTermFluctuation(kEpochs * EpochLength) > 0
  /\ LongTermTrend(kEpochs * EpochLength) > 0
  /\ ShortTermFluctuation(kEpochs * EpochLength) + LongTermTrend(kEpochs * EpochLength)
       > SeriesPeak
  /\ GetRecentDemand(demand.h, kEpochs * EpochLength, kEpochs * EpochLength) = SeriesPeak

\* The numbers of allocations IndexFor is examined with.
AllocCounts == 1 .. MaxAllocs

\* The chunk of the state is the one IndexFor gives, and it lies in
\* [0, chunks_per_alloc).
IndexInRange ==
  /\ indexing.index = IndexForChunks(indexing.chunks_per_alloc_, indexing.nallocs)
  /\ 0 <= indexing.index /\ indexing.index < indexing.chunks_per_alloc_
  /\ \A na \in AllocCounts :
       IndexForChunks(indexing.chunks_per_alloc_, na) \in 0 .. (indexing.chunks_per_alloc_ - 1)

\* C40 as stated: IndexFor lies in [0, chunks_per_alloc) and is monotone in
\* nallocs, chunk 0 holding the least-allocated trackers and the last chunk
\* the most-allocated ones.
C40_IndexAsStated ==
  /\ IndexInRange
  /\ \A a, b \in AllocCounts : a <= b =>
       IndexForChunks(indexing.chunks_per_alloc_, a)
         <= IndexForChunks(indexing.chunks_per_alloc_, b)
  /\ IndexForChunks(indexing.chunks_per_alloc_, 1) = 0

\* C40: for every chunks_per_alloc in [1, 16] and every nallocs >= 1,
\* IndexFor(t) lies in [0, chunks_per_alloc) and is monotone in nallocs, the
\* other way round: the last chunk (chunks_per_alloc - 1) holds the
\* least-allocated trackers (those with one allocation, and only those),
\* and chunk 0 the most-allocated ones; the chunk is chunks_per_alloc - 1 -
\* ceil(log2(nallocs)), clamped at 0.
C40_IndexFor ==
  /\ IndexInRange
  /\ \A a, b \in AllocCounts : a <= b =>
       IndexForChunks(indexing.chunks_per_alloc_, a)
         >= IndexForChunks(indexing.chunks_per_alloc_, b)
  /\ \A na \in AllocCounts :
       /\ IndexForChunks(indexing.chunks_per_alloc_, na)
            = Max(indexing.chunks_per_alloc_ - 1 - CeilLog2(na), 0)
       /\ indexing.chunks_per_alloc_ > 1 =>
            (IndexForChunks(indexing.chunks_per_alloc_, na) = indexing.chunks_per_alloc_ - 1
               <=> na = 1)

\* A filler with kChunks chunks and one with four: a tracker with the
\* most allocations examined is in a chunk below the last and above chunk 0
\* in the first, and in chunk 0, where the spread is clamped, in the second.
C40_Witness ==
  /\ indexing.nallocs = MaxAllocs
  /\ \/ /\ indexing.chunks_per_alloc_ = kChunks
        /\ 0 < indexing.index /\ indexing.index < kChunks - 1
     \/ /\ indexing.chunks_per_alloc_ = 4
        /\ indexing.index = 0
        /\ IndexForChunksUnclamped(4, MaxAllocs) < 0

====
